---- MODULE Spec2Model ----
(***************************************************************************)
(* A model of httpfileserv: the server loop of main(), handle_connection, *)
(* send_directory_listing, send_file, the response writer and the pure    *)
(* helpers they use (sscanf parsing, url_decode, path construction and    *)
(* the ".." filter).                                                       *)
(*                                                                         *)
(* C strings are sequences of byte values (0..255).  The HTML boilerplate *)
(* the server emits and the lines of a response header are kept as single *)
(* units of the wire; lengths are counted in units.                        *)
(***************************************************************************)
EXTENDS Integers, Sequences, FiniteSets, TLC

(***************************************************************************)
(* Bounds of the model.  The buffer sizes of the program (1024, 16384,     *)
(* 8192, the %31s field width) are scaled down to sizes at which the       *)
(* model's inputs reach them.                                              *)
(***************************************************************************)
\* longest request target (URL token) the clients send
MaxUrlLen == 3
\* MAX_PATH_SIZE (1024 in the program), scaled
MAX_PATH_SIZE == 7
\* the %31s field width of the method token, scaled (must exceed Len("GET"))
METHOD_WIDTH == 4
\* the 8192-byte chunk buffer of platform_sendfile, scaled
SENDFILE_CHUNK == 2
\* BUFFER_SIZE * 16, the initial capacity of the listing buffer, scaled
LISTING_CAPACITY0 == 16
\* BUFFER_SIZE (1024), the size of the response buffer of send_http_status, scaled
BUFFER_SIZE == 8
\* client sockets the process may hold open at once (its descriptor table)
MaxOpenSockets == 2
\* connections the server accepts in a run
MaxConnections == 2

\* MAX_CUSTOM_MIME_TYPES (50), the size of custom_mime_types, scaled
MAX_CUSTOM_MIME_TYPES == 2

\* the file sizes formatted: those within SizeWindow of a unit's threshold
SizeWindow == 60

(***************************************************************************)
(* Characters                                                              *)
(***************************************************************************)
Ord(c) ==
    CASE c = "NUL" -> 0
      [] c = "\t" -> 9
      [] c = "\n" -> 10
      [] c = "\r" -> 13
      [] c = " " -> 32
      [] c = "%" -> 37
      [] c = "+" -> 43
      [] c = "-" -> 45
      [] c = "." -> 46
      [] c = "/" -> 47
      [] c = ":" -> 58
      [] c = "0" -> 48
      [] c = "2" -> 50
      [] c = "E" -> 69
      [] c = "G" -> 71
      [] c = "H" -> 72
      [] c = "O" -> 79
      [] c = "P" -> 80
      [] c = "S" -> 83
      [] c = "T" -> 84
      [] c = "X" -> 88
      [] c = "a" -> 97
      [] c = "e" -> 101
      [] c = "g" -> 103
      [] c = "t" -> 116
      [] c = "w" -> 119

\* the C string spelled by a tuple of one-character strings
Str(t) == [i \in 1..Len(t) |-> Ord(t[i])]

Min(a, b) == IF a < b THEN a ELSE b

\* isspace() in the C locale
IsSpace(c) == c \in {9, 10, 11, 12, 13, 32}

\* what the string functions see of a buffer: the bytes before the first NUL
RECURSIVE CStr(_)
CStr(buf) ==
    IF buf = <<>> \/ Head(buf) = 0 THEN <<>>
    ELSE <<Head(buf)>> \o CStr(Tail(buf))

\* buf + k as a C string (k bytes into the buffer)
Drop(buf, k) == SubSeq(buf, k + 1, Len(buf))

Take(s, k) == SubSeq(s, 1, Min(k, Len(s)))

IsPrefix(p, s) == Len(p) <= Len(s) /\ SubSeq(s, 1, Len(p)) = p

\* strstr(s, ".."): the index of the first occurrence, 0 when there is none
RECURSIVE StrStrDotDot(_, _)
StrStrDotDot(s, i) ==
    IF i + 1 > Len(s) THEN 0
    ELSE IF s[i] = 46 /\ s[i + 1] = 46 THEN i
    ELSE StrStrDotDot(s, i + 1)

HasDotDot(s) == StrStrDotDot(s, 1) # 0

(***************************************************************************)
(* sscanf(buffer, "%31s %1023s", method, url)                              *)
(***************************************************************************)
RECURSIVE SkipSpace(_, _)
SkipSpace(s, i) ==
    IF i <= Len(s) /\ IsSpace(s[i]) THEN SkipSpace(s, i + 1) ELSE i

\* the end (exclusive) of a %<w>s token starting at i
RECURSIVE TokenEnd(_, _, _)
TokenEnd(s, i, w) ==
    IF i <= Len(s) /\ ~IsSpace(s[i]) /\ w > 0 THEN TokenEnd(s, i + 1, w - 1)
    ELSE i

\* the number of fields assigned, and the fields
ParseRequestLine(buffer) ==
    LET s  == CStr(buffer)
        m0 == SkipSpace(s, 1)
        m1 == TokenEnd(s, m0, METHOD_WIDTH)
        u0 == SkipSpace(s, m1)
        u1 == TokenEnd(s, u0, Len(s))
    IN  IF m1 = m0 THEN [n |-> 0, method |-> <<>>, url |-> <<>>]
        ELSE IF u1 = u0
             THEN [n |-> 1, method |-> SubSeq(s, m0, m1 - 1), url |-> <<>>]
        ELSE [n |-> 2, method |-> SubSeq(s, m0, m1 - 1),
              url |-> SubSeq(s, u0, u1 - 1)]

(***************************************************************************)
(* url_decode                                                              *)
(***************************************************************************)
HexVal(c) ==
    IF c >= 48 /\ c <= 57 THEN c - 48
    ELSE IF c >= 97 /\ c <= 102 THEN c - 87
    ELSE IF c >= 65 /\ c <= 70 THEN c - 55
    ELSE -1

\* the values an int that was never assigned may hold, as bytes: a sample of
\* them (NUL, '.', '/', 'a')
IndeterminateBytes == {0, 46, 47, 97}

\* sscanf(str + i + 1, "%2x", &value) followed by decoded[j++] = value: the
\* bytes that may be stored.  c1, c2 are the two characters after the '%'.
\* A failed conversion leaves value unassigned.
ScanHex2(c1, c2) ==
    IF HexVal(c1) >= 0
    THEN IF HexVal(c2) >= 0 THEN {16 * HexVal(c1) + HexVal(c2)} ELSE {HexVal(c1)}
    ELSE IF c1 = 43 /\ HexVal(c2) >= 0 THEN {HexVal(c2)}
    ELSE IF c1 = 45 /\ HexVal(c2) >= 0 THEN {(256 - HexVal(c2)) % 256}
    ELSE IndeterminateBytes

\* the buffers url_decode may return for str (without the final NUL), the
\* loop run from 1-based index i
RECURSIVE DecodeFrom(_, _)
DecodeFrom(str, i) ==
    IF i > Len(str) THEN {<<>>}
    ELSE IF str[i] = 37 /\ i + 2 <= Len(str)
         THEN {<<v>> \o r : v \in ScanHex2(str[i + 1], str[i + 2]),
                            r \in DecodeFrom(str, i + 3)}
    ELSE IF str[i] = 43 THEN {<<32>> \o r : r \in DecodeFrom(str, i + 1)}
    ELSE {<<str[i]>> \o r : r \in DecodeFrom(str, i + 1)}

url_decode(str) == DecodeFrom(str, 1)

(***************************************************************************)
(* handle_connection: path construction and the ".." filter               *)
(***************************************************************************)
\* a request path that keeps the first byte: decoded_url in place of
\* decoded_url + 1
RequestPathWhole(decoded) ==
    IF CStr(decoded) = <<47>> THEN <<>> ELSE CStr(decoded)

\* request_path = strcmp(decoded_url, "/") == 0 ? "" : decoded_url + 1
RequestPath(decoded) ==
    IF CStr(decoded) = <<47>> THEN <<>> ELSE CStr(Drop(decoded, 1))

\* snprintf(path, MAX_PATH_SIZE, "%s%c%s", base_path, PATH_SEPARATOR, request_path)
RawPath(base, decoded) ==
    Take(base \o <<47>> \o RequestPath(decoded), MAX_PATH_SIZE - 1)

\* an iteration that takes the separator before the ".." with it:
\* memmove(p - 1, p + 2, strlen(p + 2) + 1)
RemoveWithSeparator(s, p) ==
    SubSeq(s, 1, IF p > 1 THEN p - 2 ELSE 0) \o SubSeq(s, p + 2, Len(s))

\* one iteration of the filter: memmove(p, p + 2, strlen(p + 2) + 1)
RemoveAt(s, p) == SubSeq(s, 1, p - 1) \o SubSeq(s, p + 2, Len(s))

\* while ((p = strstr(path, "..")) != NULL) memmove(...)
RECURSIVE Sanitize(_)
Sanitize(s) ==
    LET p == StrStrDotDot(s, 1)
    IN  IF p = 0 THEN s ELSE Sanitize(RemoveAt(s, p))

ResolvePath(base, decoded) == Sanitize(RawPath(base, decoded))

(***************************************************************************)
(* The filesystem the server runs on (unchanged while it runs).  A node is *)
(* named by its canonical absolute path, a sequence of component names.   *)
(*     /            a (file)  e/                                           *)
(*     /e           e/                                                     *)
(*     /e/e         the working directory: a/  2 (file)                    *)
(*     /e/e/a       a (file, 3 bytes)  e/  2 (empty file)                  *)
(*     /e/e/a/e     a (file, 1 byte)  2 (a link to a name that is gone)    *)
(***************************************************************************)
nA == <<97>>
nE == <<101>>
n2 == <<50>>

Cwd == <<nE, nE>>

Dir(children) == [kind |-> "dir", children |-> children, data |-> <<>>]
File(data) == [kind |-> "file", children |-> <<>>, data |-> data]
NoNode == [kind |-> "none", children |-> <<>>, data |-> <<>>]

\* a directory's children are in the order readdir yields them
FsNode(p) ==
    CASE p = <<>> -> Dir(<<<<46>>, <<46, 46>>, nA, nE>>)
      [] p = <<nA>> -> File(<<115, 101, 99>>)
      [] p = <<nE>> -> Dir(<<<<46>>, <<46, 46>>, nE>>)
      [] p = <<nE, nE>> -> Dir(<<<<46>>, <<46, 46>>, nA, n2>>)
      [] p = <<nE, nE, n2>> -> File(<<120>>)
      [] p = <<nE, nE, nA>> -> Dir(<<nA, <<46>>, nE, <<46, 46>>, n2>>)
      [] p = <<nE, nE, nA, nA>> -> File(<<104, 105, 33>>)
      [] p = <<nE, nE, nA, n2>> -> File(<<>>)
      [] p = <<nE, nE, nA, nE>> -> Dir(<<<<46>>, <<46, 46>>, n2, nA>>)
      [] p = <<nE, nE, nA, nE, nA>> -> File(<<122>>)
      [] OTHER -> NoNode

\* the failed path walk (no component is named by a NUL byte)
ENOENT == <<<<0>>>>

\* the components of a path string, split at '/'
RECURSIVE SplitPath(_, _)
SplitPath(s, cur) ==
    IF s = <<>> THEN <<cur>>
    ELSE IF Head(s) = 47 THEN <<cur>> \o SplitPath(Tail(s), <<>>)
    ELSE SplitPath(Tail(s), Append(cur, Head(s)))

\* path resolution by the kernel: walk the components from at; "" and "."
\* stay, ".." goes up, a name must be looked up in a directory.  The result
\* is the canonical path reached, or ENOENT when the walk fails.
RECURSIVE Walk(_, _)
Walk(at, comps) ==
    IF at = ENOENT THEN at
    ELSE IF comps = <<>> THEN at
    ELSE IF FsNode(at).kind # "dir" THEN ENOENT
    ELSE LET c == Head(comps)
         IN  IF c = <<>> \/ c = <<46>> THEN Walk(at, Tail(comps))
             ELSE IF c = <<46, 46>>
                  THEN Walk(IF at = <<>> THEN at ELSE SubSeq(at, 1, Len(at) - 1),
                            Tail(comps))
             ELSE IF FsNode(Append(at, c)).kind = "none" THEN ENOENT
             ELSE Walk(Append(at, c), Tail(comps))

Canon(path) ==
    IF path = <<>> THEN ENOENT
    ELSE Walk(IF Head(path) = 47 THEN <<>> ELSE Cwd, SplitPath(path, <<>>))

\* stat(path, &st): the node, kind "none" when stat fails
stat(path) ==
    LET c == Canon(path) IN IF c = ENOENT THEN NoNode ELSE FsNode(c)

(***************************************************************************)
(* template.c                                                              *)
(***************************************************************************)
\* "src/directory_template.html", where the documentation puts the page
\* template (the tree above holds no such file)
TemplatePath ==
    <<115, 114, 99, 47, 100, 105, 114, 101, 99, 116, 111, 114, 121,
      95, 116, 101, 109, 112, 108, 97, 116, 101, 46, 104, 116, 109,
      108>>

\* load_template(template_path): the content of the file, or "NULL" when
\* fopen fails or the file is empty.  No function calls it.
load_template(template_path) ==
    LET st == stat(template_path)
    IN  IF st.kind # "file" THEN "NULL"
        ELSE IF Len(st.data) <= 0 THEN "NULL"
        ELSE st.data

\* the placeholder tokens "{{DIRECTORY_PATH}}", "{{DIRECTORY_ENTRIES}}" and
\* "{{PARENT_DIRECTORY_LINK}}"
DIRECTORY_PATH ==
    <<123, 123, 68, 73, 82, 69, 67, 84, 79, 82, 89, 95, 80, 65, 84, 72,
      125, 125>>
DIRECTORY_ENTRIES ==
    <<123, 123, 68, 73, 82, 69, 67, 84, 79, 82, 89, 95, 69, 78, 84, 82, 73,
      69, 83, 125, 125>>
PARENT_DIRECTORY_LINK ==
    <<123, 123, 80, 65, 82, 69, 78, 84, 95, 68, 73, 82, 69, 67, 84, 79, 82,
      89, 95, 76, 73, 78, 75, 125, 125>>

\* parent_link when has_parent is set, shortened to "<a href=\"..\">"
ParentLinkText == <<60, 97, 32, 104, 114, 101, 102, 61, 34, 46, 46, 34, 62>>

\* strstr(s + (i - 1), t): the index of the first occurrence of t in s at
\* or after i, 0 when there is none
RECURSIVE StrStr(_, _, _)
StrStr(s, t, i) ==
    IF i + Len(t) - 1 > Len(s) THEN 0
    ELSE IF SubSeq(s, i, i + Len(t) - 1) = t THEN i
    ELSE StrStr(s, t, i + 1)

\* the copy loop of replace_placeholder from src on: the part before the
\* placeholder, the replacement, and on after the placeholder; the rest of
\* the string when no placeholder is left
RECURSIVE ReplaceFrom(_, _, _)
ReplaceFrom(src, placeholder, replacement) ==
    LET pos == StrStr(src, placeholder, 1)
    IN  IF pos = 0 THEN src
        ELSE SubSeq(src, 1, pos - 1) \o replacement
             \o ReplaceFrom(SubSeq(src, pos + Len(placeholder), Len(src)),
                            placeholder, replacement)

\* replace_placeholder(str, placeholder, replacement), malloc succeeding
replace_placeholder(str, placeholder, replacement) ==
    IF StrStr(str, placeholder, 1) = 0 THEN str
    ELSE ReplaceFrom(str, placeholder, replacement)

\* process_template(template_content, url_path, entries, has_parent)
process_template(template_content, url_path_arg, entries, has_parent) ==
    LET r1 == replace_placeholder(template_content, DIRECTORY_PATH, url_path_arg)
        r2 == replace_placeholder(r1, DIRECTORY_ENTRIES, entries)
        parent_link == IF has_parent # 0 THEN ParentLinkText ELSE <<>>
    IN  replace_placeholder(r2, PARENT_DIRECTORY_LINK, parent_link)

(***************************************************************************)
(* get_mime_type                                                           *)
(***************************************************************************)
\* strrchr(path, '.'): the index of the last '.', 0 when there is none
RECURSIVE LastDot(_, _)
LastDot(s, i) ==
    IF i = 0 THEN 0 ELSE IF s[i] = 46 THEN i ELSE LastDot(s, i - 1)

ToLower(c) == IF c >= 65 /\ c <= 90 THEN c + 32 ELSE c

\* strcmp(a, b) == 0
EqExact(a, b) == a = b

\* strcasecmp(a, b) == 0
EqNoCase(a, b) ==
    Len(a) = Len(b) /\ \A i \in 1..Len(a) : ToLower(a[i]) = ToLower(b[i])

get_mime_type(path) ==
    LET d   == LastDot(path, Len(path))
        ext == SubSeq(path, d + 1, Len(path))
    IN  IF d = 0 THEN "application/octet-stream"
        ELSE IF EqNoCase(ext, <<104, 116, 109, 108>>)
                \/ EqNoCase(ext, <<104, 116, 109>>) THEN "text/html"
        ELSE IF EqNoCase(ext, <<116, 120, 116>>) THEN "text/plain"
        ELSE IF EqNoCase(ext, <<99, 115, 115>>) THEN "text/css"
        ELSE IF EqNoCase(ext, <<106, 115>>) THEN "application/javascript"
        ELSE IF EqNoCase(ext, <<106, 112, 103>>)
                \/ EqNoCase(ext, <<106, 112, 101, 103>>) THEN "image/jpeg"
        ELSE IF EqNoCase(ext, <<112, 110, 103>>) THEN "image/png"
        ELSE IF EqNoCase(ext, <<103, 105, 102>>) THEN "image/gif"
        ELSE IF EqNoCase(ext, <<112, 100, 102>>) THEN "application/pdf"
        ELSE IF EqNoCase(ext, <<106, 115, 111, 110>>) THEN "application/json"
        ELSE "application/octet-stream"

(***************************************************************************)
(* The wire.  What a socket carries is a sequence of units: the lines of  *)
(* a response header, the literal pieces of HTML, and single bytes.       *)
(***************************************************************************)
\* a header with the Content-Length line ahead of the Content-Type line
FormatHeaderLengthFirst(code, reason, ctype, clen) ==
    << [h |-> "status", code |-> code, reason |-> reason],
       [h |-> "Content-Length", n |-> clen],
       [h |-> "Content-Type", v |-> ctype],
       [h |-> "Connection", v |-> "close"],
       [h |-> "blank"] >>

\* the header every response is formatted with:
\*   "HTTP/1.1 %d %s\r\nContent-Type: %s\r\nContent-Length: %zu\r\n"
\*   "Connection: close\r\n\r\n"
FormatHeader(code, reason, ctype, clen) ==
    << [h |-> "status", code |-> code, reason |-> reason],
       [h |-> "Content-Type", v |-> ctype],
       [h |-> "Content-Length", n |-> clen],
       [h |-> "Connection", v |-> "close"],
       [h |-> "blank"] >>

Bytes(s) == [i \in 1..Len(s) |-> [b |-> s[i]]]
Html(name) == [html |-> name]

\* the counts a send or write of len bytes that is cut short may return: the
\* two ends of 1..len-1
ShortCounts(len) == {1, len - 1} \cap 1..(len - 1)

\* send(fd, data, len, 0) and write(fd, data, len) on the client socket: all
\* of data is taken, or the call fails (-1) and nothing is, or only the
\* first ret bytes are (the 60 s send timeout of the socket ran out)
SendOutcomes(data) ==
    {[out |-> data, ret |-> Len(data)], [out |-> <<>>, ret |-> -1]}
    \cup {[out |-> Take(data, k), ret |-> k] : k \in ShortCounts(Len(data))}

\* the failure a call's outcome is, if any
SendFault(o, data) ==
    IF o.ret < 0 THEN {"send_failed"}
    ELSE IF o.ret < Len(data) THEN {"send_short"} ELSE {}

Body400 == <<Html("<html><body><h1>400 Bad Request</h1>"),
             Html("<p>Your browser sent a request that this server could not understand.</p></body></html>")>>
Body404 == <<Html("<html><body><h1>404 Not Found</h1>"),
             Html("<p>The requested resource could not be found.</p></body></html>")>>
Body500 == <<Html("<html><body><h1>500 Internal Server Error</h1>"),
             Html("<p>The server encountered an unexpected condition.</p></body></html>")>>

\* a header and a body sent by two send calls, the second only when the
\* first did not fail: what may reach the wire, and the failures met
TwoSends(header, body) ==
    {[wire |-> <<>>, faults |-> {"send_failed"}]}
    \cup {[wire |-> h.out \o o.out,
           faults |-> SendFault(h, header) \cup SendFault(o, body)] :
            h \in {x \in SendOutcomes(header) : x.ret >= 0},
            o \in SendOutcomes(body)}

\* send_http_status: one send when header and body fit the response buffer,
\* two otherwise
send_http_status(code, reason, ctype, body) ==
    LET header == FormatHeader(code, reason, ctype, Len(body))
    IN  IF body = <<>> \/ Len(header) + Len(body) < BUFFER_SIZE
        THEN {[wire |-> o.out, faults |-> SendFault(o, header \o body)] :
                o \in SendOutcomes(header \o body)}
        ELSE TwoSends(header, body)

send_400 == send_http_status(400, "Bad Request", "text/html", Body400)
send_404 == send_http_status(404, "Not Found", "text/html", Body404)
send_500 == send_http_status(500, "Internal Server Error", "text/html", Body500)

(***************************************************************************)
(* The listing page of send_directory_listing, in units                    *)
(***************************************************************************)
\* the parent-directory link block
ParentLinkHtml ==
    Html("<div class=\"parent\"><a href=\"..\">Parent Directory</a></div>")

\* a page head that holds the parent link whatever the URL path
ListingHeadAlwaysParent(url_path) ==
    <<Html("<!DOCTYPE html>...<title>Directory: ")>> \o Bytes(url_path)
    \o <<Html("</title><style>...<h1>Directory: ")>> \o Bytes(url_path)
    \o <<Html("</h1><button ...>Dark Mode</button></div>")>>
    \o <<ParentLinkHtml>>
    \o <<Html("<table><tr><th>Name</th><th>Size</th><th>Last Modified</th></tr>")>>

\* the strcat calls from "<!DOCTYPE html>" to the table's heading row
ListingHead(url_path) ==
    <<Html("<!DOCTYPE html>...<title>Directory: ")>> \o Bytes(url_path)
    \o <<Html("</title><style>...<h1>Directory: ")>> \o Bytes(url_path)
    \o <<Html("</h1><button ...>Dark Mode</button></div>")>>
    \o (IF url_path # <<47>> THEN <<ParentLinkHtml>> ELSE <<>>)
    \o <<Html("<table><tr><th>Name</th><th>Size</th><th>Last Modified</th></tr>")>>

\* the strcat calls after the rows
ListingTail ==
    <<Html("</table>"), Html("<div class=\"footer\">Powered by httpfileserv</div>"),
      Html("</div></body></html>")>>

\* printf's "%.1f" of size / divisor, as the tenths it shows: the quotient
\* of the doubles is exact for a size below 2^53 and a divisor that is a
\* power of two, and the conversion rounds it to the nearest tenth, a tie to
\* the even digit.  The remainder is split at divisor / 1024 so that no
\* product leaves the 32-bit integers.
Tenths(size, divisor) ==
    LET e    == divisor \div 1024
        q    == size \div divisor
        r    == size % divisor
        rh   == r \div e
        rl   == r % e
        t    == (10 * rh + (10 * rl) \div e) \div 1024
        rem  == e * (10 * rh - 1024 * t) + 10 * rl
        half == divisor \div 2
        up   == rem > half \/ (rem = half /\ t % 2 = 1)
    IN  10 * q + t + (IF up THEN 1 ELSE 0)

OneDecimal(size, divisor, unit) ==
    LET tenths == Tenths(size, divisor)
    IN  [whole |-> tenths \div 10, tenth |-> tenths % 10, unit |-> unit]

\* size_str with the first test taken for size <= 1024
FormatSizeInclusive(size) ==
    IF size <= 1024 THEN [whole |-> size, tenth |-> -1, unit |-> "B"]
    ELSE IF size < 1024 * 1024 THEN OneDecimal(size, 1024, "KB")
    ELSE IF size < 1024 * 1024 * 1024 THEN OneDecimal(size, 1024 * 1024, "MB")
    ELSE OneDecimal(size, 1024 * 1024 * 1024, "GB")

\* size_str of dir_listing_callback: "%ld B" has no decimal (tenth -1)
FormatSize(size) ==
    IF size < 1024 THEN [whole |-> size, tenth |-> -1, unit |-> "B"]
    ELSE IF size < 1024 * 1024 THEN OneDecimal(size, 1024, "KB")
    ELSE IF size < 1024 * 1024 * 1024 THEN OneDecimal(size, 1024 * 1024, "MB")
    ELSE OneDecimal(size, 1024 * 1024 * 1024, "GB")

\* entry_html of dir_listing_callback (a row never reaches BUFFER_SIZE: a
\* name has at most 255 bytes)
EntryHtmlNoSlash(name, is_dir, size) ==
    IF is_dir
    THEN <<Html("<tr><td><a href=\"")>> \o Bytes(name) \o Bytes(<<47>>)
         \o <<Html("\"><span class=\"icon\">DIR</span> ")>> \o Bytes(name)
         \o <<Html("</a></td><td class=\"size\">")>> \o Bytes(<<45>>)
         \o <<Html("</td><td class=\"date\">"),
              [date |-> "mtime"], Html("</td></tr>")>>
    ELSE <<Html("<tr><td><a href=\"")>> \o Bytes(name)
         \o <<Html("\"><span class=\"icon\">FILE</span> ")>> \o Bytes(name)
         \o <<Html("</a></td><td class=\"size\">"), [size |-> FormatSize(size)],
              Html("</td><td class=\"date\">"), [date |-> "mtime"],
              Html("</td></tr>")>>

EntryHtml(name, is_dir, size) ==
    IF is_dir
    THEN <<Html("<tr><td><a href=\"")>> \o Bytes(name) \o Bytes(<<47>>)
         \o <<Html("\"><span class=\"icon\">DIR</span> ")>> \o Bytes(name)
         \o Bytes(<<47>>)
         \o <<Html("</a></td><td class=\"size\">")>> \o Bytes(<<45>>)
         \o <<Html("</td><td class=\"date\">"),
              [date |-> "mtime"], Html("</td></tr>")>>
    ELSE <<Html("<tr><td><a href=\"")>> \o Bytes(name)
         \o <<Html("\"><span class=\"icon\">FILE</span> ")>> \o Bytes(name)
         \o <<Html("</a></td><td class=\"size\">"), [size |-> FormatSize(size)],
              Html("</td><td class=\"date\">"), [date |-> "mtime"],
              Html("</td></tr>")>>

(***************************************************************************)
(* The requests the clients send                                           *)
(***************************************************************************)
UrlAlphabet == {47, 46, 37, 50, 101, 97}

RECURSIVE SeqsUpTo(_, _)
SeqsUpTo(S, n) ==
    IF n = 0 THEN {<<>>}
    ELSE LET shorter == SeqsUpTo(S, n - 1)
         IN  shorter \cup {Append(t, c) : t \in {x \in shorter : Len(x) = n - 1},
                                          c \in S}

Urls == SeqsUpTo(UrlAlphabet, MaxUrlLen) \ {<<>>}

Methods == {Str(<<"G", "E", "T">>), Str(<<"g", "e", "t">>),
            Str(<<"P", "O", "S", "T">>), Str(<<"G", "E", "T", "X">>)}

\* requests without two tokens on the request line, a request line that is
\* one long token, and requests that go on after the target
OddRequests ==
    { Str(<<" ">>), Str(<<"\r", "\n">>), Str(<<"NUL", "G", "E", "T", " ", "/">>),
      Str(<<"G", "E", "T">>), Str(<<"G", "E", "T", " ">>),
      Str(<<"G", "E", "T", "\r", "\n">>),
      Str(<<"G", "E", "T", "\r", "\n", "H", ":", " ", "a">>),
      Str(<<"P", "O", "S", "T">>),
      [i \in 1..(METHOD_WIDTH + 1) |-> 88],
      [i \in 1..(METHOD_WIDTH + 2) |-> 88],
      Str(<<"G", "E", "T", " ", "/", " ", "H", "\r", "\n">>),
      Str(<<" ", "G", "E", "T", "\t", "/", "a", "\r", "\n">>),
      Str(<<"G", "E", "T", " ", "/", "e", "NUL", "/", "a">>) }

Requests == {m \o <<32>> \o u : m \in Methods, u \in Urls} \cup OddRequests

\* the served roots the server is started with (argv[1])
BasePaths == {Str(<<"a">>), Str(<<".">>), Str(<<".", ".">>)}

(***************************************************************************)
(* State                                                                   *)
(***************************************************************************)
VARIABLES
    pc,           \* where main() and the handler it calls stand
    base_path,    \* argv[1], the served root
    open_fds,     \* the client sockets that are open
    client_fd,    \* main's client_fd (-1 before the first accept)
    closes,       \* close() calls made on client_fd since it was accepted
    accepted,     \* the connections accepted so far
    buffer,       \* handle_connection: the bytes recv stored
    decoded_url,  \* handle_connection: the buffer url_decode returned
    path,         \* handle_connection: the path after the ".." filter
    path_stat,    \* handle_connection: the kind stat reported for path
    sent,         \* the units written to client_fd
    fs_log,       \* the filesystem calls made for this connection
    listing,      \* send_directory_listing: data (the listing buffer)
    xfer,         \* send_file and platform_sendfile: fd, offset, remaining...
    faults,       \* the calls that failed or fell short for this connection
    exit_status,  \* the status the process exited with (-1 while it runs)
    lib,          \* the statics of httpfileserv_lib.c
    prev,         \* the request and the response of the connection before
    probe,        \* a call of one function: its argument and what it returned
    calls         \* the calls made for this connection that take or release
                  \* something: how many of each

vars == <<pc, base_path, open_fds, client_fd, closes, accepted, buffer,
          decoded_url, path,
          path_stat, sent, fs_log, listing, xfer, faults,
          exit_status, lib, prev, probe, calls>>

\* what the handling of a connection leaves alone
outer == <<base_path, exit_status, lib, prev, probe>>

conn == <<open_fds, client_fd, closes, accepted>>
locals == <<buffer, decoded_url, path, path_stat>>
req == <<buffer, decoded_url, path, path_stat, calls>>

\* recv: the calls of recv; url_decode: the buffers url_decode returned;
\* malloc_listing: the listing buffers malloc returned; open: the file
\* descriptors open returned; free_decoded_url, free_listing, close_fd: the
\* calls that release them
NoCalls == [recv |-> 0, url_decode |-> 0, free_decoded_url |-> 0,
            malloc_listing |-> 0, free_listing |-> 0, open |-> 0,
            close_fd |-> 0]

\* the counts after one more call of each of names
Did(names) == [k \in DOMAIN calls |-> IF k \in names THEN calls[k] + 1
                                                      ELSE calls[k]]

\* #define PORT 8080
PORT == 8080

\* server_running = 0, server_socket = -1, user_callback = NULL,
\* server_base_path = {0}, server_port = PORT, custom_mime_count = 0; calls
\* are the invocations of the callback made so far
LibInit == [server_running |-> 0, server_socket |-> -1,
            user_callback |-> "NULL", server_base_path |-> <<>>,
            server_port |-> PORT, custom_mime_types |-> <<>>, calls |-> <<>>]
NoPrev == [buffer |-> <<>>, sent |-> <<>>]
NoProbe == [fn |-> "none"]

NoListing == [allocated |-> FALSE, buf |-> <<>>, size |-> 0, capacity |-> 0,
              alloc |-> 0, pos |-> 0]
NoXfer == [fd_open |-> FALSE, st_size |-> 0, data |-> <<>>, file_pos |-> 0,
           offset |-> 0, remaining |-> 0, total_sent |-> 0, ret |-> 0]

\* main is entered: base_path is not assigned yet
Init ==
    /\ pc = "start"
    /\ base_path = <<>>
    /\ exit_status = -1
    /\ lib = LibInit
    /\ prev = NoPrev
    /\ probe = NoProbe
    /\ open_fds = {}
    /\ client_fd = -1
    /\ closes = 0
    /\ accepted = 0
    /\ buffer = <<>>
    /\ decoded_url = <<>>
    /\ path = <<>>
    /\ path_stat = "unset"
    /\ calls = NoCalls
    /\ sent = <<>>
    /\ fs_log = <<>>
    /\ listing = NoListing
    /\ xfer = NoXfer
    /\ faults = {}

(***************************************************************************)
(* main(): the server loop                                                 *)
(***************************************************************************)
\* the descriptor accept returns: the lowest one that is free
FreshFd == CHOOSE n \in 4..(4 + MaxOpenSockets) :
              n \notin open_fds /\ \A m \in 4..(n - 1) : m \in open_fds

\* the calls of main's startup that end the process when they fail
StartupFailures ==
    {"platform_init_failed", "socket_failed", "server_setsockopt_failed",
     "bind_failed", "listen_failed"}

\* argc < 2: the usage line, return 1
Usage ==
    /\ pc = "start"
    /\ pc' = "exited"
    /\ exit_status' = 1
    /\ UNCHANGED <<base_path, lib, prev, probe, conn, req, sent, fs_log,
                   listing, xfer, faults>>

\* a startup that goes on to the loop after a call failed
StartupFailGoesOn ==
    /\ pc = "start"
    /\ \E b \in BasePaths : base_path' = b
    /\ \E f \in StartupFailures : faults' = {f}
    /\ pc' = "accept"
    /\ UNCHANGED <<exit_status, lib, prev, probe, conn, req, sent, fs_log,
                   listing, xfer>>

\* platform_init, socket, setsockopt, bind or listen fails: perror and
\* exit(EXIT_FAILURE)
StartupFail ==
    /\ pc = "start"
    /\ \E b \in BasePaths : base_path' = b
    /\ \E f \in StartupFailures : faults' = {f}
    /\ pc' = "exited"
    /\ exit_status' = 1
    /\ UNCHANGED <<lib, prev, probe, conn, req, sent, fs_log, listing, xfer>>

\* base_path = argv[1] and every call of the startup succeeds: the loop
Startup ==
    /\ pc = "start"
    /\ \E b \in BasePaths : base_path' = b
    /\ pc' = "accept"
    /\ UNCHANGED <<exit_status, lib, prev, probe, conn, req, sent, fs_log,
                   listing, xfer, faults>>

\* what is known of a connection when accept has just been called for it:
\* nothing received, sent, looked up or closed yet
NewAttempt ==
    /\ closes' = 0
    /\ buffer' = <<>>
    /\ decoded_url' = <<>>
    /\ path' = <<>>
    /\ path_stat' = "unset"
    /\ calls' = NoCalls
    /\ sent' = <<>>
    /\ fs_log' = <<>>
    /\ listing' = NoListing
    /\ xfer' = NoXfer

\* a loop that a failed accept ends
AcceptFailFatal ==
    /\ pc = "accept"
    /\ client_fd' = -1
    /\ NewAttempt
    /\ faults' = {"accept_failed"}
    /\ pc' = "exited"
    /\ exit_status' = 1
    /\ UNCHANGED <<base_path, lib, prev, probe, open_fds, accepted>>

\* accept() returns -1: perror and continue, on to the next accept
AcceptFail ==
    /\ pc = "accept"
    /\ client_fd' = -1
    /\ NewAttempt
    /\ faults' = {"accept_failed"}
    /\ UNCHANGED <<pc, outer, open_fds, accepted>>

\* accept() returns a client socket; the handler's locals start zeroed
Accept ==
    /\ pc = "accept"
    /\ Cardinality(open_fds) < MaxOpenSockets
    /\ accepted < MaxConnections
    /\ accepted' = accepted + 1
    /\ client_fd' = FreshFd
    /\ open_fds' = open_fds \cup {FreshFd}
    /\ NewAttempt
    /\ faults' = {}
    /\ pc' = "sockopts"
    /\ UNCHANGED outer

\* the setsockopt calls on the client socket (SO_REUSEADDR, TCP_NODELAY,
\* SO_KEEPALIVE, the blocking mode and the timeouts) all succeed:
\* handle_connection is called
ClientSockopts ==
    /\ pc = "sockopts"
    /\ pc' = "recv"
    /\ UNCHANGED <<outer, conn, req, sent, fs_log, listing, xfer, faults>>

\* one of the setsockopt calls on the client socket fails: main is at its
\* perror
ClientSockoptsFail ==
    /\ pc = "sockopts"
    /\ pc' = "perror"
    /\ UNCHANGED <<outer, conn, req, sent, fs_log, listing, xfer, faults>>

\* after the perror main goes on: handle_connection is called
ClientSockoptsGoOn ==
    /\ pc = "perror"
    /\ pc' = "recv"
    /\ UNCHANGED <<outer, conn, req, sent, fs_log, listing, xfer, faults>>

\* a loop that goes back to accept without the close
CloseLeak ==
    /\ pc = "close"
    /\ pc' = "accept"
    /\ UNCHANGED <<outer, conn, req, sent, fs_log, listing, xfer, faults>>

\* close(client_fd) after handle_connection returned, then the next accept
CloseSocket ==
    /\ pc = "close"
    /\ open_fds' = open_fds \ {client_fd}
    /\ closes' = closes + 1
    /\ pc' = "accept"
    /\ UNCHANGED <<base_path, exit_status, lib, probe, client_fd, accepted,
                   req, sent, fs_log, listing, xfer, faults>>

Close ==
    /\ CloseSocket
    /\ UNCHANGED prev

(***************************************************************************)
(* handle_connection                                                       *)
(***************************************************************************)
\* recv() stores the request r
Receive(r) ==
    /\ pc = "recv"
    /\ buffer' = r
    /\ calls' = Did({"recv"})
    /\ pc' = "handle"
    /\ UNCHANGED <<outer, conn, decoded_url, path, path_stat, sent, fs_log,
                   listing, xfer, faults>>

Recv ==
    /\ pc = "recv"
    /\ \E r \in Requests : Receive(r)

\* a handler that answers a failed recv with the 400
RecvFailAnswers ==
    /\ pc = "recv"
    /\ calls' = Did({"recv"})
    /\ \E o \in send_400 : sent' = sent \o o.wire
    /\ faults' = faults \cup {"recv_failed"}
    /\ pc' = "close"
    /\ UNCHANGED <<outer, conn, locals, fs_log, listing, xfer>>

\* recv() returns 0 or -1: the handler returns
RecvFail ==
    /\ pc = "recv"
    /\ calls' = Did({"recv"})
    /\ faults' = faults \cup {"recv_failed"}
    /\ pc' = "close"
    /\ UNCHANGED <<outer, conn, locals, sent, fs_log, listing, xfer>>

\* a response is sent after the failures in also, and the handler returns
Respond(outcomes, also) ==
    /\ \E o \in outcomes :
          /\ sent' = sent \o o.wire
          /\ faults' = faults \cup o.faults \cup also
    /\ pc' = "close"

\* a handler that answers 404 whatever stat reported
DispatchAlways404(k) == "send_404"

\* a method check that ignores case: strcasecmp(method, "GET") == 0
IsGetAnyCase(method) == EqNoCase(method, Str(<<"G", "E", "T">>))

\* what the handler does next for the kind stat reported: 404 when stat
\* failed, the listing when S_IFDIR is set, the file otherwise
Dispatch(k) ==
    IF k = "none" THEN "send_404"
    ELSE IF k = "dir" THEN "list_begin" ELSE "file_begin"

\* strcmp(method, "GET") == 0
IsGet(method) == method = Str(<<"G", "E", "T">>)

\* the request line is parsed, the method checked, the target decoded, the
\* path built and filtered, and stat called on it
HandleRequest ==
    /\ pc = "handle"
    /\ LET r == ParseRequestLine(buffer)
       IN  IF r.n # 2
           THEN /\ Respond(send_400, {})
                /\ UNCHANGED <<decoded_url, path, path_stat, fs_log, calls>>
           ELSE IF ~IsGet(r.method)
           THEN /\ Respond(send_404, {})
                /\ UNCHANGED <<decoded_url, path, path_stat, fs_log, calls>>
           ELSE \E d \in url_decode(r.url) :
                  LET p == ResolvePath(base_path, d)
                      k == stat(p).kind
                  IN  /\ decoded_url' = d
                      /\ path' = p
                      /\ path_stat' = k
                      /\ fs_log' = Append(fs_log, [op |-> "stat", path |-> p])
                      /\ IF Dispatch(k) = "send_404"
                         THEN /\ Respond(send_404, {})
                              /\ calls' = Did({"url_decode", "free_decoded_url"})
                         ELSE /\ pc' = Dispatch(k)
                              /\ calls' = Did({"url_decode"})
                              /\ UNCHANGED <<sent, faults>>
    /\ UNCHANGED <<outer, conn, buffer, listing, xfer>>

\* malloc(len + 1) in url_decode returns NULL and the loop stores through it
DecodeCrash ==
    /\ pc = "handle"
    /\ ParseRequestLine(buffer).n = 2
    /\ IsGet(ParseRequestLine(buffer).method)
    /\ pc' = "crashed"
    /\ faults' = faults \cup {"malloc_failed"}
    /\ UNCHANGED <<outer, conn, req, sent, fs_log, listing, xfer>>

(***************************************************************************)
(* send_directory_listing, with platform_list_directory and               *)
(* dir_listing_callback                                                    *)
(***************************************************************************)
url_path == CStr(decoded_url)

\* malloc of the listing buffer and the strcat calls of the page head
ListBegin ==
    /\ pc = "list_begin"
    /\ LET head == ListingHead(url_path)
       IN  /\ listing' = [allocated |-> TRUE, buf |-> head, size |-> Len(head),
                          capacity |-> LISTING_CAPACITY0,
                          alloc |-> LISTING_CAPACITY0, pos |-> 0]
           /\ pc' = "list_open"
    /\ calls' = Did({"malloc_listing"})
    /\ UNCHANGED <<outer, conn, locals, sent, fs_log, xfer, faults>>

\* malloc returns NULL: 500
ListAllocFail ==
    /\ pc = "list_begin"
    /\ Respond(send_500, {"malloc_failed"})
    /\ calls' = Did({"free_decoded_url"})
    /\ UNCHANGED <<outer, conn, locals, fs_log, listing, xfer>>

\* platform_list_directory: opendir(path)
ListOpen ==
    /\ pc = "list_open"
    /\ fs_log' = Append(fs_log, [op |-> "list", path |-> path])
    /\ listing' = [listing EXCEPT !.pos = 1]
    /\ pc' = "list_read"
    /\ UNCHANGED <<outer, conn, req, sent, xfer, faults>>

\* opendir fails and the 500 is sent with the buffer still allocated
ListOpenFailLeak ==
    /\ pc = "list_open"
    /\ fs_log' = Append(fs_log, [op |-> "list", path |-> path])
    /\ listing' = listing
    /\ Respond(send_500, {"opendir_failed"})
    /\ calls' = Did({"free_decoded_url"})
    /\ UNCHANGED <<outer, conn, locals, xfer>>

\* opendir fails: platform_list_directory returns 1, the buffer is freed, 500
ListOpenFail ==
    /\ pc = "list_open"
    /\ fs_log' = Append(fs_log, [op |-> "list", path |-> path])
    /\ listing' = [listing EXCEPT !.allocated = FALSE]
    /\ Respond(send_500, {"opendir_failed"})
    /\ calls' = Did({"free_listing", "free_decoded_url"})
    /\ UNCHANGED <<outer, conn, locals, xfer>>

DirEntries == FsNode(Canon(path)).children

\* snprintf(full_path, sizeof(full_path), "%s/%s", path, entry->d_name)
NextEntryPath == path \o <<47>> \o DirEntries[listing.pos]

\* the row the callback appends for the entry readdir returns next
NextEntryHtml ==
    LET st == stat(NextEntryPath)
    IN  EntryHtml(DirEntries[listing.pos], st.kind = "dir", Len(st.data))

\* stat(full_path, &stat_buf) fails for the entry readdir returns next
NextEntryGone == stat(NextEntryPath).kind = "none"

\* readdir yields an entry whose stat fails: a warning, and the entry is
\* skipped
ListSkipGone ==
    /\ pc = "list_read"
    /\ listing.pos <= Len(DirEntries)
    /\ DirEntries[listing.pos] \notin {<<46>>, <<46, 46>>}
    /\ NextEntryGone
    /\ listing' = [listing EXCEPT !.pos = @ + 1]
    /\ fs_log' = Append(fs_log, [op |-> "stat_entry", path |-> NextEntryPath])
    /\ UNCHANGED <<pc, outer, conn, req, sent, xfer, faults>>

\* readdir yields "." or "..": skipped
ListSkipDots ==
    /\ pc = "list_read"
    /\ listing.pos <= Len(DirEntries)
    /\ DirEntries[listing.pos] \in {<<46>>, <<46, 46>>}
    /\ listing' = [listing EXCEPT !.pos = @ + 1]
    /\ UNCHANGED <<pc, outer, conn, req, sent, fs_log, xfer, faults>>

\* dir_listing_callback on the next entry: the row is appended, after a
\* realloc when it does not fit
ListEntry ==
    /\ pc = "list_read"
    /\ listing.pos <= Len(DirEntries)
    /\ DirEntries[listing.pos] \notin {<<46>>, <<46, 46>>}
    /\ ~NextEntryGone
    /\ LET entry_html == NextEntryHtml
           entry_len  == Len(entry_html)
           grow       == listing.size + entry_len + 1 > listing.capacity
           capacity   == IF grow THEN listing.capacity * 2 + entry_len
                         ELSE listing.capacity
       IN  listing' = [listing EXCEPT !.capacity = capacity,
                                      !.alloc = IF grow THEN capacity ELSE @,
                                      !.buf = @ \o entry_html,
                                      !.size = @ + entry_len,
                                      !.pos = @ + 1]
    /\ fs_log' = Append(fs_log, [op |-> "stat_entry", path |-> NextEntryPath])
    /\ UNCHANGED <<pc, outer, conn, req, sent, xfer, faults>>

\* dir_listing_callback: realloc returns NULL.  The callback returns 1, and
\* platform_list_directory stops and returns 0.
ListReallocFail ==
    /\ pc = "list_read"
    /\ listing.pos <= Len(DirEntries)
    /\ DirEntries[listing.pos] \notin {<<46>>, <<46, 46>>}
    /\ ~NextEntryGone
    /\ LET entry_len == Len(NextEntryHtml)
       IN  /\ listing.size + entry_len + 1 > listing.capacity
           /\ listing' = [listing EXCEPT !.capacity = @ * 2 + entry_len]
    /\ fs_log' = Append(fs_log, [op |-> "stat_entry", path |-> NextEntryPath])
    /\ faults' = faults \cup {"realloc_failed"}
    /\ pc' = "list_finish"
    /\ UNCHANGED <<outer, conn, req, sent, xfer>>

\* readdir returns NULL at the end of the directory:
\* platform_list_directory returns 0
ListEnd ==
    /\ pc = "list_read"
    /\ listing.pos > Len(DirEntries)
    /\ pc' = "list_finish"
    /\ UNCHANGED <<outer, conn, req, sent, fs_log, listing, xfer, faults>>

\* readdir returns NULL on an error before the end: the error is logged and
\* platform_list_directory returns 0
ListReadFail ==
    /\ pc = "list_read"
    /\ listing.pos <= Len(DirEntries)
    /\ faults' = faults \cup {"readdir_failed"}
    /\ pc' = "list_finish"
    /\ UNCHANGED <<outer, conn, req, sent, fs_log, listing, xfer>>

\* the strcat calls of the page's end, the header, the two sends, free (when
\* the end does not fit the block, the bytes past it may still be stored)
ListFinish ==
    /\ pc = "list_finish"
    /\ LET body   == listing.buf \o ListingTail
           header == FormatHeader(200, "OK", "text/html", Len(body))
       IN  /\ listing' = [listing EXCEPT !.buf = body, !.size = Len(body),
                                         !.allocated = FALSE]
           /\ Respond(TwoSends(header, body), {})
    /\ calls' = Did({"free_listing", "free_decoded_url"})
    /\ UNCHANGED <<outer, conn, locals, fs_log, xfer>>


\* the strcat calls of the page's end run past the block and the process
\* is killed (heap corruption found by free, or a fault)
ListTailOverflow ==
    /\ pc = "list_finish"
    /\ listing.size + Len(ListingTail) + 1 > listing.alloc
    /\ pc' = "crashed"
    /\ faults' = faults \cup {"overflow"}
    /\ UNCHANGED <<outer, conn, req, sent, fs_log, listing, xfer>>

(***************************************************************************)
(* send_file and platform_sendfile                                         *)
(***************************************************************************)
\* stat fails, or open fails: 404
FileOpenFail ==
    /\ pc = "file_begin"
    /\ fs_log' = fs_log \o <<[op |-> "stat", path |-> path],
                             [op |-> "open", path |-> path]>>
    /\ Respond(send_404, {"open_failed"})
    /\ calls' = Did({"free_decoded_url"})
    /\ UNCHANGED <<outer, conn, locals, listing, xfer>>

\* stat, open, get_mime_type, and the header is sent
FileBegin ==
    /\ pc = "file_begin"
    /\ stat(path).kind # "none"
    /\ fs_log' = fs_log \o <<[op |-> "stat", path |-> path],
                             [op |-> "open", path |-> path]>>
    /\ LET st     == stat(path)
           header == FormatHeader(200, "OK", get_mime_type(path), Len(st.data))
       IN  \E h \in SendOutcomes(header) :
              /\ sent' = sent \o h.out
              /\ faults' = faults \cup SendFault(h, header)
              /\ IF h.ret < 0
                 THEN /\ xfer' = xfer
                      /\ calls' = Did({"open", "close_fd", "free_decoded_url"})
                      /\ pc' = "close"
                 ELSE /\ xfer' = [fd_open |-> TRUE, st_size |-> Len(st.data),
                                  data |-> st.data, file_pos |-> 0, offset |-> 0,
                                  remaining |-> Len(st.data), total_sent |-> 0,
                                  ret |-> 0]
                      /\ calls' = Did({"open"})
                      /\ pc' = "sendfile"
    /\ UNCHANGED <<outer, conn, locals, listing>>

\* what read(in_fd, buffer, n) stores: the next bytes of the file
ReadChunk == SubSeq(xfer.data, xfer.file_pos + 1,
                    Min(xfer.file_pos + Min(SENDFILE_CHUNK, xfer.remaining),
                        Len(xfer.data)))

\* one turn of the loop of platform_sendfile: read, then write
SendfileStep ==
    /\ pc = "sendfile"
    /\ xfer.remaining > 0
    /\ ReadChunk # <<>>
    /\ \E w \in SendOutcomes(Bytes(ReadChunk)) :
          /\ sent' = sent \o w.out
          /\ faults' = faults \cup SendFault(w, ReadChunk)
          /\ IF w.ret <= 0
             THEN /\ xfer' = [xfer EXCEPT !.file_pos = @ + Len(ReadChunk),
                                          !.ret = -1]
                  /\ pc' = "file_end"
             ELSE /\ xfer' = [xfer EXCEPT !.file_pos = @ + Len(ReadChunk),
                                          !.total_sent = @ + w.ret,
                                          !.remaining = @ - w.ret,
                                          !.offset = @ + w.ret]
                  /\ pc' = "sendfile"
    /\ UNCHANGED <<outer, conn, req, fs_log, listing>>

\* the loop of platform_sendfile ends: nothing remains, or read returns 0
\* (end of file) or -1 (an error)
SendfileEnd ==
    /\ pc = "sendfile"
    /\ \/ /\ xfer.remaining = 0 \/ ReadChunk = <<>>
          /\ faults' = faults
       \/ /\ xfer.remaining > 0
          /\ faults' = faults \cup {"read_failed"}
    /\ xfer' = [xfer EXCEPT !.ret = xfer.total_sent]
    /\ pc' = "file_end"
    /\ UNCHANGED <<outer, conn, req, sent, fs_log, listing>>

\* a send_file that closes the client socket as well before it returns
FileEndClosing ==
    /\ pc = "file_end"
    /\ xfer' = [xfer EXCEPT !.fd_open = FALSE]
    /\ open_fds' = open_fds \ {client_fd}
    /\ closes' = closes + 1
    /\ pc' = "close"
    /\ calls' = Did({"close_fd", "free_decoded_url"})
    /\ UNCHANGED <<outer, client_fd, accepted, locals, sent, fs_log, listing,
                   faults>>

\* close(fd), and send_file and handle_connection return
FileEnd ==
    /\ pc = "file_end"
    /\ xfer' = [xfer EXCEPT !.fd_open = FALSE]
    /\ pc' = "close"
    /\ calls' = Did({"close_fd", "free_decoded_url"})
    /\ UNCHANGED <<outer, conn, locals, sent, fs_log, listing, faults>>

(***************************************************************************)
(* The server                                                              *)
(***************************************************************************)
Next ==
    \/ Usage \/ StartupFail \/ Startup
    \/ Accept \/ AcceptFail \/ Close
    \/ ClientSockopts \/ ClientSockoptsFail \/ ClientSockoptsGoOn
    \/ Recv \/ RecvFail \/ HandleRequest \/ DecodeCrash
    \/ ListBegin \/ ListAllocFail \/ ListOpen \/ ListOpenFail
    \/ ListSkipDots \/ ListSkipGone \/ ListEntry \/ ListReallocFail
    \/ ListEnd \/ ListReadFail \/ ListFinish \/ ListTailOverflow
    \/ FileBegin \/ FileOpenFail \/ SendfileStep \/ SendfileEnd \/ FileEnd

Spec == Init /\ [][Next]_vars

(***************************************************************************)
(* The server whose second client repeats the request of the first: the   *)
(* request and the response of a connection during which no call failed   *)
(* are kept when it is closed                                              *)
(***************************************************************************)
NoCallFailed == faults = {}

RepeatClose ==
    /\ CloseSocket
    /\ prev' = IF NoCallFailed /\ buffer # <<>>
               THEN [buffer |-> buffer, sent |-> sent]
               ELSE NoPrev

RepeatRecv ==
    /\ pc = "recv"
    /\ IF accepted = 1 THEN Recv ELSE prev # NoPrev /\ Receive(prev.buffer)

RepeatNext ==
    \/ Usage \/ StartupFail \/ Startup
    \/ Accept \/ AcceptFail \/ RepeatClose
    \/ ClientSockopts \/ ClientSockoptsFail \/ ClientSockoptsGoOn
    \/ RepeatRecv \/ RecvFail \/ HandleRequest \/ DecodeCrash
    \/ ListBegin \/ ListAllocFail \/ ListOpen \/ ListOpenFail
    \/ ListSkipDots \/ ListSkipGone \/ ListEntry \/ ListReallocFail
    \/ ListEnd \/ ListReadFail \/ ListFinish \/ ListTailOverflow
    \/ FileBegin \/ FileOpenFail \/ SendfileStep \/ SendfileEnd \/ FileEnd

RepeatSpec == Init /\ [][RepeatNext]_vars

(***************************************************************************)
(* Calls of one function on its own                                        *)
(***************************************************************************)
\* the state in which one function is called: no server runs
ProbeInit ==
    /\ pc = "probe"
    /\ base_path = <<46>>
    /\ exit_status = -1
    /\ lib = LibInit
    /\ prev = NoPrev
    /\ open_fds = {}
    /\ client_fd = -1
    /\ closes = 0
    /\ accepted = 0
    /\ buffer = <<>>
    /\ decoded_url = <<>>
    /\ path = <<>>
    /\ path_stat = "unset"
    /\ calls = NoCalls
    /\ sent = <<>>
    /\ fs_log = <<>>
    /\ listing = NoListing
    /\ xfer = NoXfer
    /\ faults = {}

\* all the variables but probe and lib
server == <<pc, base_path, conn, req, sent, fs_log, listing, xfer, faults,
            exit_status, prev>>

\* the sizes st_size takes: 0.., the sizes around 1024, 1024^2 and 1024^3,
\* the sizes the documentation names and the ties of the rounding
SizeSamples ==
    (0..SizeWindow)
    \cup {b + j : b \in {1024, 1024 * 1024, 1024 * 1024 * 1024},
                  j \in (0 - SizeWindow)..SizeWindow}
    \cup {500, 1280, 1792, 2048, 2560, 3 * 1024 * 1024,
          1024 * 1024 + 256 * 1024, 1024 * 1024 * 1024 + 128 * 1024 * 1024}

SizeInit ==
    /\ ProbeInit
    /\ \E s \in SizeSamples :
          probe = [fn |-> "format_size", arg |-> s, done |-> FALSE,
                   ret |-> [whole |-> 0, tenth |-> 0, unit |-> ""]]

\* the size of one file is formatted
FormatSizeCall ==
    /\ pc = "probe"
    /\ probe.fn = "format_size"
    /\ ~probe.done
    /\ probe' = [probe EXCEPT !.done = TRUE, !.ret = FormatSize(probe.arg)]
    /\ UNCHANGED <<server, lib>>

SizeNext == FormatSizeCall

SizeSpec == SizeInit /\ [][SizeNext]_vars

\* the extensions get_mime_type knows
BuiltInExts ==
    {<<104, 116, 109, 108>>, <<104, 116, 109>>, <<116, 120, 116>>,
     <<99, 115, 115>>, <<106, 115>>, <<106, 112, 103>>,
     <<106, 112, 101, 103>>, <<112, 110, 103>>, <<103, 105, 102>>,
     <<112, 100, 102>>, <<106, 115, 111, 110>>}

ToUpper(c) == IF c >= 97 /\ c <= 122 THEN c - 32 ELSE c

\* an extension in lower case, in upper case and with a capital
CaseForms(ext) ==
    {ext, [i \in 1..Len(ext) |-> ToUpper(ext[i])],
     [i \in 1..Len(ext) |-> IF i = 1 THEN ToUpper(ext[i]) ELSE ext[i]]}

\* the ends of the paths send_file asks the type of: no dot, a dot and an
\* extension of the table in some case, a dot and another extension
MimeSuffixes ==
    {<<>>, <<46>>, <<46, 122, 122>>, <<46, 116, 120>>,
     <<46, 104, 116, 109, 108, 120>>, <<46, 116, 120, 116, 46>>,
     <<46, 116, 120, 116, 46, 122>>, <<46, 122, 46, 112, 110, 103>>}
    \cup {<<46>> \o f : f \in UNION {CaseForms(e) : e \in BuiltInExts}}

\* the directories of those paths: none, "a/", "d.txt/", "./"
MimeDirs == {<<>>, <<97, 47>>, <<100, 46, 116, 120, 116, 47>>, <<46, 47>>}

\* the stems of the file names: "a" and none
MimeStems == {<<97>>, <<>>}

MimePaths ==
    {d \o n \o x : d \in MimeDirs, n \in MimeStems, x \in MimeSuffixes}

NoCall(fn, arg) == [fn |-> fn, arg |-> arg, done |-> FALSE, ret |-> ""]

MimeInit ==
    /\ ProbeInit
    /\ \E p \in MimePaths : probe = NoCall("get_mime_type", p)

\* const char* mime_type = get_mime_type(path)
GetMimeTypeCall ==
    /\ pc = "probe"
    /\ probe.fn = "get_mime_type"
    /\ ~probe.done
    /\ probe' = [probe EXCEPT !.done = TRUE, !.ret = get_mime_type(probe.arg)]
    /\ UNCHANGED <<server, lib>>

MimeNext == GetMimeTypeCall

MimeSpec == MimeInit /\ [][MimeNext]_vars

(***************************************************************************)
(* httpfileserv_lib.c                                                      *)
(***************************************************************************)
\* sizeof(custom_mime_types[i].extension)
EXTENSION_SIZE == 32

\* set_mime_type(extension, mime_type) on the table: nothing when the table
\* is full, else the entry of the extension (leading dot dropped, compared
\* by strcasecmp) gets the type, else a new entry is appended (the types
\* registered here are shorter than the 63 bytes strncpy keeps)
set_mime_type(table, extension, mime_type) ==
    IF Len(table) >= MAX_CUSTOM_MIME_TYPES THEN table
    ELSE LET ext  == IF extension # <<>> /\ Head(extension) = 46
                     THEN Tail(extension) ELSE extension
             hits == {i \in 1..Len(table) : EqNoCase(table[i].extension, ext)}
         IN  IF hits # {}
             THEN LET i == CHOOSE h \in hits : \A g \in hits : h <= g
                  IN  [table EXCEPT ![i].mime_type = mime_type]
             ELSE Append(table, [extension |-> Take(ext, EXTENSION_SIZE - 1),
                                 mime_type |-> mime_type])

\* the extensions and the types an embedding program registers:
\* "zz", ".zz", "ZZ", "png", ".PNG"
CustomExts ==
    {<<122, 122>>, <<46, 122, 122>>, <<90, 90>>, <<112, 110, 103>>,
     <<46, 80, 78, 71>>}
CustomTypes == {"text/x-one", "text/x-two"}

\* the files asked for: "a.zz", "a.ZZ", "a.png", "a.txt", "a"
LibPaths ==
    {<<97, 46, 122, 122>>, <<97, 46, 90, 90>>, <<97, 46, 112, 110, 103>>,
     <<97, 46, 116, 120, 116>>, <<97>>}

LibSpecInit ==
    /\ ProbeInit
    /\ probe = NoProbe

SetMimeType ==
    /\ pc = "probe"
    /\ \E e \in CustomExts, t \in CustomTypes :
          lib' = [lib EXCEPT !.custom_mime_types = set_mime_type(@, e, t)]
    /\ UNCHANGED <<server, probe>>

\* send_file asks the content type of a file: get_mime_type(path)
ServeMimeType ==
    /\ pc = "probe"
    /\ \E p \in LibPaths :
          probe' = [fn |-> "get_mime_type", arg |-> p, done |-> TRUE,
                    ret |-> get_mime_type(p)]
    /\ UNCHANGED <<server, lib>>

\* set_request_callback(callback)
set_request_callback(l, callback) == [l EXCEPT !.user_callback = callback]

\* invoke_request_callback(method, path, status_code): the callback is
\* called when one is registered.  No function calls it.
invoke_request_callback(l, method, req_path, status_code) ==
    IF l.user_callback # "NULL"
    THEN [l EXCEPT !.calls = Append(@, [callback |-> l.user_callback,
                                        method |-> method, path |-> req_path,
                                        status_code |-> status_code])]
    ELSE l

LibNext == SetMimeType \/ ServeMimeType

LibSpec == LibSpecInit /\ [][LibNext]_vars

(***************************************************************************)
(* start_server and stop_server                                            *)
(***************************************************************************)
\* what platform_init may return: 0, or the error code of WSAStartup
PlatformInitResults == {0, 1}

\* start_server(directory_path, port), platform_init returning init_ret:
\* the statics after the call, the value returned, and whether
\* platform_init was called
start_server(l, directory_path, port, init_ret) ==
    IF l.server_running # 0
    THEN [lib |-> l, ret |-> 1, init_called |-> FALSE]
    ELSE LET saved == [l EXCEPT
                         !.server_base_path =
                             Take(directory_path, MAX_PATH_SIZE - 1),
                         !.server_port = IF port > 0 THEN port ELSE PORT]
         IN  IF init_ret # 0
             THEN [lib |-> saved, ret |-> 1, init_called |-> TRUE]
             ELSE [lib |-> [saved EXCEPT !.server_running = 1], ret |-> 0,
                   init_called |-> TRUE]

\* stop_server(): the statics after the call, whether the socket was closed
\* and whether platform_cleanup was called
stop_server(l) ==
    IF l.server_running = 0
    THEN [lib |-> l, closed |-> FALSE, cleanup_called |-> FALSE]
    ELSE [lib |-> [l EXCEPT !.server_socket = -1, !.server_running = 0],
          closed |-> l.server_socket >= 0, cleanup_called |-> TRUE]

\* the directories and ports the embedding program passes: "a", "bb" and a
\* path longer than the buffer; no port, a negative one, PORT, another one
LifecyclePaths ==
    {<<97>>, <<98, 98>>, [i \in 1..(MAX_PATH_SIZE + 1) |-> 99]}
LifecyclePorts == {0, -1, PORT, PORT + 1}

LifecycleInit ==
    /\ ProbeInit
    /\ probe = NoProbe

StartServerCall ==
    /\ pc = "probe"
    /\ \E d \in LifecyclePaths, p \in LifecyclePorts,
          i \in PlatformInitResults :
          LET r == start_server(lib, d, p, i)
          IN  /\ lib' = r.lib
              /\ probe' = [fn |-> "start_server", directory_path |-> d,
                           port |-> p, before |-> lib, ret |-> r.ret,
                           init_called |-> r.init_called]
    /\ UNCHANGED server

StopServerCall ==
    /\ pc = "probe"
    /\ LET r == stop_server(lib)
       IN  /\ lib' = r.lib
           /\ probe' = [fn |-> "stop_server", before |-> lib,
                        closed |-> r.closed,
                        cleanup_called |-> r.cleanup_called]
    /\ UNCHANGED server

LifecycleNext == StartServerCall \/ StopServerCall

LifecycleSpec == LifecycleInit /\ [][LifecycleNext]_vars

(***************************************************************************)
(* The server with a request callback: httpfileserv_lib.o is linked with  *)
(* main, and a callback is registered before the first connection         *)
(***************************************************************************)
EmbedInit == Init

SetRequestCallback ==
    /\ pc = "accept"
    /\ accepted = 0
    /\ lib.user_callback = "NULL"
    /\ lib' = set_request_callback(lib, "on_request")
    /\ UNCHANGED <<server, probe>>

EmbedNext == SetRequestCallback \/ Next

EmbedSpec == EmbedInit /\ [][EmbedNext]_vars

(***************************************************************************)
(* Properties                                                              *)
(***************************************************************************)
\* the handler has returned to main for the connection at hand
Returned == pc = "close"

\* the calls on the client socket and the file that failed or fell short
IoFaults == {"send_failed", "send_short", "read_failed"}

\* C1: every path handed to a filesystem call (stat, open, the directory
\* enumeration and the stat of its entries) is lexically the served root or
\* a descendant of it: it keeps the served root as its prefix and has no
\* ".." after it, also for a request target that holds "..".
C1_TraversalConfinement ==
    \A i \in 1..Len(fs_log) :
       /\ IsPrefix(base_path, fs_log[i].path)
       /\ ~HasDotDot(Drop(fs_log[i].path, Len(base_path)))

\* the same, for the served roots that hold no ".." themselves
C1_ConfinedUnderPlainRoot == HasDotDot(base_path) \/ C1_TraversalConfinement

\* C2: a GET for an existing regular file with contents B, which is opened
\* and whose header is sent whole, is answered with status 200,
\* Content-Length |B| and a body that is byte for byte B, when no send, read
\* or write call reports an error.
C2_FileByteExact ==
    LET B      == stat(path).data
        header == FormatHeader(200, "OK", get_mime_type(path), Len(B))
    IN  (/\ Returned
         /\ path_stat = "file"
         /\ faults \cap {"open_failed", "send_failed", "read_failed"} = {}
         /\ IsPrefix(header, sent))
        => sent = header \o Bytes(B)

(***************************************************************************)
(* Responses as they are read off the wire                                 *)
(***************************************************************************)
IsHeaderLine(u) == "h" \in DOMAIN u

HeaderLineNames == <<"status", "Content-Type", "Content-Length", "Connection",
                     "blank">>

\* u is the header line that belongs at place i of a response
HeaderLineAt(i, u) ==
    /\ IsHeaderLine(u)
    /\ u.h = HeaderLineNames[i]
    /\ i = 1 => u.code \in {200, 400, 404, 500}
    /\ i = 4 => u.v = "close"

HeaderCount(w) == Cardinality({i \in 1..Len(w) : IsHeaderLine(w[i])})

\* the five header lines in order, then exactly Content-Length body units
CompleteResponse(w) ==
    /\ Len(w) >= 5
    /\ HeaderCount(w) = 5
    /\ \A i \in 1..5 : HeaderLineAt(i, w[i])
    /\ Len(w) - 5 = w[3].n

Canned(code, reason, body) ==
    FormatHeader(code, reason, "text/html", Len(body)) \o body

C4_OneCompleteResponse ==
    (pc \in {"close", "crashed"} /\ buffer # <<>> /\ faults \cap IoFaults = {})
    => CompleteResponse(sent)

(***************************************************************************)
(* The request line as a client wrote it                                   *)
(***************************************************************************)
\* the bytes before the first CR or LF
RECURSIVE FirstLine(_)
FirstLine(s) ==
    IF s = <<>> \/ Head(s) \in {10, 13} THEN <<>>
    ELSE <<Head(s)>> \o FirstLine(Tail(s))

\* the whitespace-delimited tokens of s from index i on
RECURSIVE Tokens(_, _)
Tokens(s, i) ==
    LET a == SkipSpace(s, i)
        b == TokenEnd(s, a, Len(s))
    IN  IF a > Len(s) THEN <<>> ELSE <<SubSeq(s, a, b - 1)>> \o Tokens(s, b)

\* C5: a request whose request line holds fewer than two
\* whitespace-delimited tokens is answered with 400 (whole, when no send
\* failed or fell short), and no path is resolved or looked up.
C5_TooFewTokensIs400 ==
    (/\ Returned
     /\ buffer # <<>>
     /\ Len(Tokens(FirstLine(CStr(buffer)), 1)) < 2
     /\ faults \cap IoFaults = {})
    => /\ sent = Canned(400, "Bad Request", Body400)
       /\ fs_log = <<>>
       /\ path = <<>>

\* the same, for the requests that hold fewer than two tokens in all, and
\* none longer than the method field
C5_TooFewFieldsIs400 ==
    (/\ Returned
     /\ buffer # <<>>
     /\ Len(Tokens(CStr(buffer), 1)) < 2
     /\ \A i \in 1..Len(Tokens(CStr(buffer), 1)) :
           Len(Tokens(CStr(buffer), 1)[i]) <= METHOD_WIDTH
     /\ faults \cap IoFaults = {})
    => /\ sent = Canned(400, "Bad Request", Body400)
       /\ fs_log = <<>>
       /\ path = <<>>

\* C6: a request that holds a method token and a target, and whose method
\* token is not exactly "GET" ("get", "POST", "GETX" too), is answered with
\* 404 (whole, when no send failed or fell short; otherwise as much of it
\* as the send took), whatever the target, and no filesystem call is made.
C6_NonGetIs404 ==
    LET t == Tokens(CStr(buffer), 1)
    IN  (/\ Returned
         /\ Len(t) >= 2
         /\ t[1] # Str(<<"G", "E", "T">>))
        => /\ fs_log = <<>>
           /\ path = <<>> /\ path_stat = "unset"
           /\ IsPrefix(sent, Canned(404, "Not Found", Body404))
           /\ faults \cap IoFaults = {} => sent = Canned(404, "Not Found", Body404)

C6_Witness ==
    /\ Returned
    /\ Tokens(CStr(buffer), 1) = <<Str(<<"g", "e", "t">>), Str(<<"/", "a">>)>>
    /\ sent = Canned(404, "Not Found", Body404)

(***************************************************************************)
(* The listing page a directory is to be answered with                     *)
(***************************************************************************)
\* the rows of the entries named, "." and ".." and the entries whose stat
\* fails left out
RECURSIVE Rows(_, _)
Rows(dir, names) ==
    IF names = <<>> THEN <<>>
    ELSE LET st == stat(dir \o <<47>> \o Head(names))
         IN  (IF Head(names) \in {<<46>>, <<46, 46>>} \/ st.kind = "none"
              THEN <<>>
              ELSE EntryHtml(Head(names), st.kind = "dir", Len(st.data)))
             \o Rows(dir, Tail(names))

ListingPage(url, dir) ==
    ListingHead(url) \o Rows(dir, FsNode(Canon(dir)).children) \o ListingTail

\* C7: after a GET whose path was resolved the handler takes exactly one of
\* three ways, by what stat reports for the path: 404 when the path does not
\* exist, the 200 text/html listing of that directory when it is a
\* directory, the 200 transfer of that file otherwise (the responses are
\* compared whole when no call failed).
C7_DispatchByKind ==
    /\ path_stat # "unset" => path_stat = stat(path).kind
    /\ pc \in {"list_begin", "list_open", "list_read", "list_finish"}
          => path_stat = "dir"
    /\ pc \in {"file_begin", "sendfile", "file_end"} => path_stat = "file"
    /\ path_stat \in {"unset", "none", "file"} => listing = NoListing
    /\ path_stat \in {"unset", "none", "dir"} => xfer = NoXfer
    /\ (Returned /\ faults = {} /\ path_stat # "unset")
          => sent = CASE path_stat = "none" -> Canned(404, "Not Found", Body404)
                      [] path_stat = "dir" ->
                           LET page == ListingPage(url_path, path)
                           IN  FormatHeader(200, "OK", "text/html", Len(page))
                               \o page
                      [] path_stat = "file" ->
                           FormatHeader(200, "OK", get_mime_type(path),
                                        Len(stat(path).data))
                           \o Bytes(stat(path).data)

C7_Witness ==
    /\ Returned
    /\ faults = {}
    /\ path_stat = "dir"
    /\ sent # <<>>
    /\ Rows(path, FsNode(Canon(path)).children) # <<>>

\* C8: when the listing of a directory meets an allocation or an
\* enumeration failure (malloc, realloc, opendir or readdir fails), the
\* response is the 500 and no listing reaches the client (the sends that
\* failed or fell short are set aside).
C8_ListingFailureIs500 ==
    (/\ Returned
     /\ path_stat = "dir"
     /\ faults \cap {"malloc_failed", "realloc_failed", "opendir_failed",
                     "readdir_failed"} # {}
     /\ faults \cap IoFaults = {})
    => sent = Canned(500, "Internal Server Error", Body500)

\* the same for the failures met before the first entry is read
C8_EarlyFailureIs500 ==
    (/\ Returned
     /\ path_stat = "dir"
     /\ faults \cap {"malloc_failed", "opendir_failed"} # {}
     /\ faults \cap IoFaults = {})
    => sent = Canned(500, "Internal Server Error", Body500)

\* C9: a connection is accepted only when no client socket is open and the
\* handler of the one before has returned, and every byte of a response is
\* written to the one open socket after its request was received and
\* before its close: the responses of two clients never interleave.
C9_SequentialIsolation ==
    [][/\ accepted' # accepted
          => /\ open_fds = {}
             /\ pc = "accept"
             /\ (accepted > 0 /\ "accept_failed" \notin faults) => closes = 1
       /\ (sent' # sent /\ sent' # <<>>)
          => /\ IsPrefix(sent, sent')
             /\ buffer # <<>>
             /\ closes = 0
             /\ open_fds = {client_fd}]_vars

C9_Witness ==
    /\ accepted = 2
    /\ Returned
    /\ CompleteResponse(sent)

\* C10: the client socket of every connection is closed exactly once, by
\* the loop, before the next accept, whichever way the handler returned
\* (failed receive, 400, 404, 500, file transfer, listing): the socket is
\* open and not yet closed while the handler runs, and closed once when the
\* server is back at accept.
C10_ClosedExactlyOnce ==
    /\ closes <= 1
    /\ pc = "accept"
          => /\ open_fds = {}
             /\ (accepted > 0 /\ "accept_failed" \notin faults) => closes = 1
    /\ pc \notin {"start", "exited", "accept"}
          => (open_fds = {client_fd} /\ closes = 0)

C10_Witness ==
    /\ pc = "accept"
    /\ closes = 1
    /\ path_stat = "file"
    /\ "send_failed" \in faults
    /\ sent # <<>>

(***************************************************************************)
(* Directory listings                                                      *)
(***************************************************************************)
HasParentLink(w) == \E i \in 1..Len(w) : w[i] = ParentLinkHtml

\* a whole 200 listing response is on the wire
ListingSent ==
    /\ Returned
    /\ path_stat = "dir"
    /\ CompleteResponse(sent)
    /\ sent[1].code = 200

Body(w) == SubSeq(w, HeaderCount(w) + 1, Len(w))

\* the children of dir that are not "." or ".."
RealChildren(dir) ==
    LET names == FsNode(Canon(dir)).children
    IN  {i \in 1..Len(names) : names[i] \notin {<<46>>, <<46, 46>>}}

\* the rows of a page: every row ends with the same closing tags
RowCount(w) == Cardinality({i \in 1..Len(w) : w[i] = Html("</td></tr>")})

\* the row of a directory: a '/' after the name in the link target and in
\* the name displayed, '-' for the size
DirRow(name) ==
    <<Html("<tr><td><a href=\"")>> \o Bytes(name \o <<47>>)
    \o <<Html("\"><span class=\"icon\">DIR</span> ")>> \o Bytes(name \o <<47>>)
    \o <<Html("</a></td><td class=\"size\">")>> \o Bytes(<<45>>)
    \o <<Html("</td><td class=\"date\">"), [date |-> "mtime"],
         Html("</td></tr>")>>

\* the row of a file: the name as it is, the size
FileRow(name, size) ==
    <<Html("<tr><td><a href=\"")>> \o Bytes(name)
    \o <<Html("\"><span class=\"icon\">FILE</span> ")>> \o Bytes(name)
    \o <<Html("</a></td><td class=\"size\">"), [size |-> FormatSize(size)],
         Html("</td><td class=\"date\">"), [date |-> "mtime"],
         Html("</td></tr>")>>

\* one row for each of the first k children of dir other than ".", ".." and
\* those whose stat fails, in the order of the enumeration
RECURSIVE RowsUpTo(_, _)
RowsUpTo(dir, k) ==
    IF k = 0 THEN <<>>
    ELSE LET name == FsNode(Canon(dir)).children[k]
             node == stat(dir \o <<47>> \o name)
         IN  RowsUpTo(dir, k - 1)
             \o (CASE name \in {<<46>>, <<46, 46>>} -> <<>>
                   [] node.kind = "none" -> <<>>
                   [] node.kind = "dir" -> DirRow(name)
                   [] OTHER -> FileRow(name, Len(node.data)))

C12_WitnessDirRow ==
    /\ ListingSent
    /\ faults = {}
    /\ \E i \in RealChildren(path) :
          stat(path \o <<47>> \o DirEntries[i]).kind = "dir"

(***************************************************************************)
(* Size formatting                                                         *)
(***************************************************************************)
Formatted == probe.fn = "format_size" /\ probe.done

\* the unit of a size and its divisor, by the thresholds of the claim
UnitOf(s) ==
    IF s < 1024 THEN "B"
    ELSE IF s < 1024 * 1024 THEN "KB"
    ELSE IF s < 1024 * 1024 * 1024 THEN "MB"
    ELSE "GB"

DivisorOf(s) ==
    IF s < 1024 THEN 1
    ELSE IF s < 1024 * 1024 THEN 1024
    ELSE IF s < 1024 * 1024 * 1024 THEN 1024 * 1024
    ELSE 1024 * 1024 * 1024

Abs(x) == IF x < 0 THEN 0 - x ELSE x

\* the number shown is s / d to one decimal: the nearest tenth, a tie going
\* to the even digit
ShownIsNearestTenth(s, d, shown) ==
    LET T == 10 * shown.whole + shown.tenth
        t == T - 10 * (s \div d)
        off == Abs(10 * (s % d) - t * d)
    IN  /\ shown.tenth \in 0..9
        /\ t \in 0..10
        /\ off < d \div 2 \/ (off = d \div 2 /\ T % 2 = 0)

\* the unit and the number, but for the bound on the number shown
SizeUnitAndNumber ==
    Formatted =>
       LET s == probe.arg
           shown == probe.ret
       IN  /\ shown.unit = UnitOf(s)
           /\ s < 1024 => shown.whole = s /\ shown.tenth = -1
           /\ s >= 1024 => ShownIsNearestTenth(s, DivisorOf(s), shown)
           /\ s = 500 => shown = [whole |-> 500, tenth |-> -1, unit |-> "B"]
           /\ s = 2048 => shown = [whole |-> 2, tenth |-> 0, unit |-> "KB"]
           /\ s = 3 * 1024 * 1024
                 => shown = [whole |-> 3, tenth |-> 0, unit |-> "MB"]

\* C13 as the specification words it: the unit by the thresholds, the example
\* sizes, and the number shown always below 1024.
C13_ShownBelow1024 ==
    /\ SizeUnitAndNumber
    /\ Formatted => probe.ret.whole < 1024

\* C13: s < 1024 gives 's B', 1024 <= s < 1024^2 gives s/1024 with one
\* decimal and ' KB', 1024^2 <= s < 1024^3 gives ' MB', larger gives ' GB';
\* the number shown is the scaled value rounded to the nearest tenth, so it
\* is below 1024 or, for a size within a twentieth of a unit below the
\* threshold of the next unit, exactly 1024.0.
C13_ShownAtMost1024 ==
    /\ SizeUnitAndNumber
    /\ Formatted
          => \/ probe.ret.whole < 1024
             \/ /\ probe.ret.whole = 1024 /\ probe.ret.tenth = 0
                /\ probe.ret.unit \in {"KB", "MB"}
                /\ 20 * (DivisorOf(probe.arg) - (probe.arg % DivisorOf(probe.arg)))
                      <= DivisorOf(probe.arg)

\* 1048575 bytes are shown as 1024.0 KB
C13_Witness ==
    /\ Formatted
    /\ probe.arg = 1024 * 1024 - 1
    /\ probe.ret = [whole |-> 1024, tenth |-> 0, unit |-> "KB"]

(***************************************************************************)
(* MIME types                                                              *)
(***************************************************************************)
MimeCalled == probe.fn = "get_mime_type" /\ probe.done

\* the part of s after its last c, s itself when it holds no c
RECURSIVE AfterLast(_, _)
AfterLast(s, c) ==
    IF \E i \in 1..Len(s) : s[i] = c
    THEN AfterLast(SubSeq(s, (CHOOSE i \in 1..Len(s) : s[i] = c) + 1, Len(s)), c)
    ELSE s

\* the file name of a path, and whether it has an extension
FileNameOf(p) == AfterLast(p, 47)
HasExtension(name) == \E i \in 1..Len(name) : name[i] = 46
ExtensionOf(name) == AfterLast(name, 46)
LowerCase(s) == [i \in 1..Len(s) |-> IF s[i] \in 65..90 THEN s[i] + 32 ELSE s[i]]

\* the content types of the documentation
TableType(ext) ==
    CASE ext \in {<<104, 116, 109, 108>>, <<104, 116, 109>>} -> "text/html"
      [] ext = <<116, 120, 116>> -> "text/plain"
      [] ext = <<99, 115, 115>> -> "text/css"
      [] ext = <<106, 115>> -> "application/javascript"
      [] ext \in {<<106, 112, 103>>, <<106, 112, 101, 103>>} -> "image/jpeg"
      [] ext = <<112, 110, 103>> -> "image/png"
      [] ext = <<103, 105, 102>> -> "image/gif"
      [] ext = <<112, 100, 102>> -> "application/pdf"
      [] ext = <<106, 115, 111, 110>> -> "application/json"
      [] OTHER -> "application/octet-stream"

\* C14: get_mime_type returns "application/octet-stream" for every path
\* whose file name has no extension or an extension outside the built-in
\* table, and the table's content type for a built-in extension whatever
\* its letter case.
C14_MimeClassification ==
    MimeCalled =>
       LET name == FileNameOf(probe.arg)
       IN  probe.ret = IF HasExtension(name)
                       THEN TableType(LowerCase(ExtensionOf(name)))
                       ELSE "application/octet-stream"

\* a built-in extension in capitals, under a directory whose name holds a dot
C14_Witness ==
    /\ MimeCalled
    /\ probe.arg = <<100, 46, 116, 120, 116, 47, 97, 46, 80, 78, 71>>
    /\ probe.ret = "image/png"

C14_WitnessNoExtension ==
    /\ MimeCalled
    /\ probe.arg = <<100, 46, 116, 120, 116, 47, 97>>
    /\ probe.ret = "application/octet-stream"

\* the entries of the custom table registered for the extension of a path
CustomEntries(p) ==
    {i \in 1..Len(lib.custom_mime_types) :
        /\ HasExtension(FileNameOf(p))
        /\ LowerCase(lib.custom_mime_types[i].extension)
              = LowerCase(ExtensionOf(FileNameOf(p)))}

\* C15: after set_mime_type(ext, type), the content type of a file with
\* extension ext is type, also when ext is a built-in extension.
C15_CustomTypeServed ==
    MimeCalled =>
       \A i \in CustomEntries(probe.arg) :
          probe.ret = lib.custom_mime_types[i].mime_type

(***************************************************************************)
(* The request callback                                                    *)
(***************************************************************************)
\* a response has been sent for the request of the connection at hand
RequestCompleted ==
    /\ Returned
    /\ sent # <<>>
    /\ IsHeaderLine(sent[1])
    /\ sent[1].h = "status"

\* C16: when a callback is registered, it has been invoked once the request
\* is completed, with the request's method, the resolved path and the
\* status code of the response (the requests during which a call failed are
\* set aside).
C16_CallbackInvoked ==
    (RequestCompleted /\ faults = {} /\ lib.user_callback # "NULL")
    => /\ lib.calls # <<>>
       /\ LET c == lib.calls[Len(lib.calls)]
          IN  /\ c.callback = lib.user_callback
              /\ c.method = ParseRequestLine(buffer).method
              /\ c.path = path
              /\ c.status_code = sent[1].code

(***************************************************************************)
(* Startup and the loop                                                    *)
(***************************************************************************)
\* C17: when the served-root argument is missing (base_path is never
\* assigned) or a call of the startup fails, the process exits with a
\* non-zero status, and accept is not called: no connection is accepted or
\* served before the exit and none can be after it.
C17_FatalStartup ==
    /\ (faults \cap StartupFailures # {} \/ (base_path = <<>> /\ pc # "start"))
          => pc = "exited"
    /\ pc = "exited"
          => /\ exit_status > 0
             /\ accepted = 0
             /\ client_fd = -1
             /\ open_fds = {}
             /\ sent = <<>>
             /\ buffer = <<>>
             /\ ~ENABLED (Accept \/ AcceptFail)
    /\ pc \notin {"start", "exited"} => (exit_status = -1 /\ base_path # <<>>)

\* bind fails (the port is taken)
C17_Witness ==
    /\ pc = "exited"
    /\ exit_status = 1
    /\ "bind_failed" \in faults

C17_WitnessNoArgument ==
    /\ pc = "exited"
    /\ exit_status = 1
    /\ base_path = <<>>

\* after a failed accept the process runs on at accept, nothing has been
\* received, sent, looked up or closed for it, and the next accept can succeed
AfterAcceptFailure ==
    "accept_failed" \in faults
    => /\ pc = "accept"
       /\ exit_status = -1
       /\ client_fd = -1
       /\ open_fds = {}
       /\ closes = 0
       /\ buffer = <<>>
       /\ sent = <<>>
       /\ fs_log = <<>>
       /\ accepted < MaxConnections => ENABLED Accept

\* after a failed socket-option call the process runs on, the socket open
AfterSockoptFailure ==
    pc = "perror"
    => /\ exit_status = -1
       /\ open_fds = {client_fd}
       /\ closes = 0
       /\ ENABLED ClientSockoptsGoOn

\* the handler, once called, can receive the request
HandlerReceives == pc = "recv" => (ENABLED Recv /\ client_fd \in open_fds)

\* from the socket-option calls the next step is the perror of a failure or
\* the call of the handler, and from the perror the call of the handler
SockoptsStep ==
    pc \in {"sockopts", "perror"}
    => /\ pc' \in {"perror", "recv"}
       /\ pc = "perror" => pc' = "recv"
       /\ UNCHANGED <<outer, conn, req, sent, fs_log, listing, xfer, faults>>

\* C18: after a failed accept the process runs on at accept, nothing has
\* been received, sent, looked up or closed for it and no socket is open,
\* and the next accept can succeed; after a failed socket-option call on an
\* accepted socket the process runs on with the socket open, and its next
\* step is the call of the handler for that connection.
C18_AcceptFailureNotFatal ==
    /\ [](AfterAcceptFailure /\ AfterSockoptFailure /\ HandlerReceives)
    /\ [][SockoptsStep]_vars

\* an accept failed after a connection was served, and the next can succeed
C18_Witness ==
    /\ "accept_failed" \in faults
    /\ accepted = 1
    /\ pc = "accept"
    /\ ENABLED Accept

\* a socket-option call failed on the socket of the second connection
C18_WitnessSockopt ==
    /\ pc = "perror"
    /\ accepted = 2

(***************************************************************************)
(* Repeated requests                                                       *)
(***************************************************************************)
\* C19: two identical GET requests handled one after the other against the
\* same served root, no call failing in either, yield the same response.
C19_Idempotent ==
    (/\ Returned
     /\ accepted >= 2
     /\ NoCallFailed
     /\ prev # NoPrev
     /\ buffer = prev.buffer
     /\ IsGet(ParseRequestLine(buffer).method))
    => sent = prev.sent

(***************************************************************************)
(* The page template                                                       *)
(***************************************************************************)
\* C20: when the page template cannot be loaded, the response to a request
\* for a directory is the 500 (the requests during which a call failed are
\* set aside).
C20_TemplateFailureIs500 ==
    (/\ Returned
     /\ path_stat = "dir"
     /\ NoCallFailed
     /\ load_template(TemplatePath) = "NULL")
    => sent = Canned(500, "Internal Server Error", Body500)

(***************************************************************************)
(* The handler's receive and the resources of a request                    *)
(***************************************************************************)
\* the places of the handler after its recv, and main's close after it
AfterRecv ==
    {"handle", "list_begin", "list_open", "list_read", "list_finish",
     "file_begin", "sendfile", "file_end", "close", "crashed"}

\* C21: the handler calls recv exactly once per connection (not at all
\* before it is entered, once from then on), and when recv returns zero or
\* a negative value the handler returns with no byte written to the socket,
\* no filesystem call made, no request stored and nothing decoded or opened.
C21_OneReceive ==
    /\ pc \in AfterRecv => calls.recv = 1
    /\ pc \in {"sockopts", "perror", "recv"} => calls.recv = 0
    /\ calls.recv <= 1
    /\ "recv_failed" \in faults
          => /\ pc \in {"close", "accept"}
             /\ sent = <<>>
             /\ fs_log = <<>>
             /\ buffer = <<>>
             /\ calls = [NoCalls EXCEPT !.recv = 1]

C21_Witness ==
    /\ "recv_failed" \in faults
    /\ Returned
    /\ accepted = 2

(***************************************************************************)
(* The ".." filter of handle_connection, one iteration at a time           *)
(***************************************************************************)
\* longest path the filter is run on
MaxFilterLen == 6

\* the paths snprintf may have left in path: strings of '.', '/' and 'a'
FilterPaths == SeqsUpTo({46, 47, 97}, MaxFilterLen)

\* path as snprintf left it; before is path as the last iteration found it
FilterInit ==
    /\ ProbeInit
    /\ \E s \in FilterPaths :
          probe = [fn |-> "filter", arg |-> s, path |-> s, before |-> s,
                   iterations |-> 0, done |-> FALSE]

\* (p = strstr(path, "..")) != NULL: memmove(p, p + 2, strlen(p + 2) + 1)
FilterStep ==
    /\ pc = "probe"
    /\ probe.fn = "filter"
    /\ ~probe.done
    /\ LET p == StrStrDotDot(probe.path, 1)
       IN  /\ p # 0
           /\ probe' = [probe EXCEPT !.before = probe.path,
                                     !.path = RemoveAt(probe.path, p),
                                     !.iterations = @ + 1]
    /\ UNCHANGED <<server, lib>>

\* strstr returns NULL: the loop ends
FilterEnd ==
    /\ pc = "probe"
    /\ probe.fn = "filter"
    /\ ~probe.done
    /\ StrStrDotDot(probe.path, 1) = 0
    /\ probe' = [probe EXCEPT !.done = TRUE]
    /\ UNCHANGED <<server, lib>>

FilterNext == FilterStep \/ FilterEnd

FilterSpec == FilterInit /\ [][FilterNext]_vars

\* s without the two bytes at p and p + 1
WithoutTwo(s, p) == [i \in 1..(Len(s) - 2) |-> IF i < p THEN s[i] ELSE s[i + 2]]

\* C22: the traversal filter ends for every path: every iteration deletes
\* the two bytes of one ".." of the path and nothing else (so the length
\* falls by two with each iteration and the loop runs at most half the
\* length times), the loop goes on while a ".." is left, and when it has
\* ended the path holds no "..", and is what the handler goes on with.
C22_FilterTerminates ==
    probe.fn = "filter"
    => /\ Len(probe.path) = Len(probe.arg) - 2 * probe.iterations
       /\ probe.iterations > 0
            => \E p \in 1..(Len(probe.before) - 1) :
                  /\ probe.before[p] = 46
                  /\ probe.before[p + 1] = 46
                  /\ probe.path = WithoutTwo(probe.before, p)
       /\ ~probe.done => ENABLED FilterNext
       /\ (~probe.done /\ HasDotDot(probe.path)) => ENABLED FilterStep
       /\ probe.done => /\ ~HasDotDot(probe.path)
                        /\ probe.path = Sanitize(probe.arg)

\* "....": the deletion of the first ".." leaves the two dots after it
C22_Witness ==
    /\ probe.fn = "filter"
    /\ probe.done
    /\ probe.arg = <<46, 46, 46, 46>>
    /\ probe.iterations = 2

\* "./../." : the deletion joins "./" and "/."
C22_WitnessJoined ==
    /\ probe.fn = "filter"
    /\ probe.done
    /\ probe.arg = <<46, 47, 46, 46, 47, 46>>
    /\ probe.path = <<46, 47, 47, 46>>

(***************************************************************************)
(* The path construction of handle_connection on its own                   *)
(***************************************************************************)
\* longest decoded target the path is built from
MaxDecodedLen == 3

\* the buffers url_decode returns: '/', '.', 'a' and the NUL a "%00" leaves
DecodedUrls == SeqsUpTo({47, 46, 97, 0}, MaxDecodedLen) \ {<<>>}

\* the served roots: those of the server and one that nearly fills path
LongBasePaths == BasePaths \cup {[i \in 1..(MAX_PATH_SIZE - 2) |-> 97]}

BuildInit ==
    /\ ProbeInit
    /\ \E b \in LongBasePaths, d \in DecodedUrls :
          probe = [fn |-> "build_path", base_path |-> b, decoded_url |-> d,
                   path |-> <<>>, done |-> FALSE]

\* request_path = ...; snprintf(path, MAX_PATH_SIZE, "%s%c%s", ...)
BuildPath ==
    /\ pc = "probe"
    /\ probe.fn = "build_path"
    /\ ~probe.done
    /\ probe' = [probe EXCEPT !.done = TRUE,
                              !.path = RawPath(probe.base_path,
                                               probe.decoded_url)]
    /\ UNCHANGED <<server, lib>>

BuildNext == BuildPath

BuildSpec == BuildInit /\ [][BuildNext]_vars

\* the path was built
Built == probe.fn = "build_path" /\ probe.done

\* the target as a string
Target == CStr(probe.decoded_url)

\* C23 as the specification words it: "/" gives the served root itself,
\* with no separator after it, and every other target gives served root,
\* separator and the decoded target without its one leading '/'.
C23_PathConstruction ==
    Built
    => probe.path =
         IF Target = <<47>> THEN probe.base_path
         ELSE probe.base_path \o <<47>>
              \o (IF Target # <<>> /\ Head(Target) = 47 THEN Tail(Target)
                  ELSE Target)

\* the bytes that follow the first byte of the decoded target, to the NUL
AfterFirstByte ==
    LET d == probe.decoded_url
        n == CHOOSE k \in 1..Len(d) :
                /\ \A i \in 2..k : d[i] # 0
                /\ k = Len(d) \/ d[k + 1] = 0
    IN  [i \in 1..(n - 1) |-> d[i + 1]]

\* C23: the path is the served root, the separator and, unless the target
\* is "/", the bytes of the decoded target after its first byte, the whole
\* cut to MAX_PATH_SIZE - 1 bytes: "/" gives the served root followed by
\* the separator.
C23_PathAsBuilt ==
    Built
    => LET b    == probe.base_path
           rest == IF Target = <<47>> THEN <<>> ELSE AfterFirstByte
           n    == Len(b) + 1 + Len(rest)
       IN  /\ Len(probe.path) = Min(n, MAX_PATH_SIZE - 1)
           /\ \A i \in 1..Len(probe.path) :
                 probe.path[i] = IF i <= Len(b) THEN b[i]
                                 ELSE IF i = Len(b) + 1 THEN 47
                                 ELSE rest[i - Len(b) - 1]

\* "/" under the served root "a": the path is "a/"
C23_Witness ==
    /\ Built
    /\ Target = <<47>>
    /\ probe.base_path = <<97>>
    /\ probe.path = <<97, 47>>

\* a target that does not begin with '/', and a path that is cut
C23_WitnessCut ==
    /\ Built
    /\ Target # <<>>
    /\ Head(Target) = 97
    /\ Len(probe.path) = MAX_PATH_SIZE - 1
    /\ Len(probe.base_path) + Len(Target) > MAX_PATH_SIZE - 1

(***************************************************************************)
(* url_decode on its own, with the path the handler builds from its result *)
(***************************************************************************)
\* longest target made of any bytes of the alphabet
MaxEscapedLen == 3

\* '%', '2', 'e', '+', 'g', '/'
EscapeAlphabet == {37, 50, 101, 43, 103, 47}

\* "/%2e%2e", "/%2e%2e/a", "/.%2e", "/%2E.", "/a+a", "/%2fa", "/%41%"
EscapedSamples ==
    {<<47, 37, 50, 101, 37, 50, 101>>,
     <<47, 37, 50, 101, 37, 50, 101, 47, 97>>,
     <<47, 46, 37, 50, 101>>, <<47, 37, 50, 69, 46>>,
     <<47, 97, 43, 97>>, <<47, 37, 50, 102, 97>>, <<47, 37, 52, 49, 37>>}

EscapedUrls ==
    (SeqsUpTo(EscapeAlphabet, MaxEscapedLen) \ {<<>>}) \cup EscapedSamples

DecodeInit ==
    /\ ProbeInit
    /\ \E u \in EscapedUrls :
          probe = [fn |-> "url_decode", arg |-> u, ret |-> <<>>,
                   path |-> <<>>, done |-> FALSE]

\* decoded_url = url_decode(url), then the path is built from it and
\* filtered (with room for the whole of it in path)
UrlDecodeCall ==
    /\ pc = "probe"
    /\ probe.fn = "url_decode"
    /\ ~probe.done
    /\ \E d \in url_decode(probe.arg) :
          probe' = [probe EXCEPT
                       !.done = TRUE,
                       !.ret = d,
                       !.path = Sanitize(base_path \o <<47>> \o RequestPath(d))]
    /\ UNCHANGED <<server, lib>>

DecodeNext == UrlDecodeCall

DecodeSpec == DecodeInit /\ [][DecodeNext]_vars

IsHexDigit(c) == (c >= 48 /\ c <= 57) \/ (c >= 97 /\ c <= 102) \/ (c >= 65 /\ c <= 70)

HexDigit(c) == IF c <= 57 THEN c - 48 ELSE IF c >= 97 THEN c - 87 ELSE c - 55

\* percent-decoding as the claim words it: "%XX" gives the byte XX, '+' a
\* space, and every other character is copied
RECURSIVE PercentDecoded(_)
PercentDecoded(s) ==
    IF s = <<>> THEN <<>>
    ELSE IF Head(s) = 37 /\ Len(s) >= 3 /\ IsHexDigit(s[2]) /\ IsHexDigit(s[3])
         THEN <<16 * HexDigit(s[2]) + HexDigit(s[3])>>
              \o PercentDecoded(SubSeq(s, 4, Len(s)))
    ELSE IF Head(s) = 43 THEN <<32>> \o PercentDecoded(Tail(s))
    ELSE <<Head(s)>> \o PercentDecoded(Tail(s))

\* C24: url_decode returns the target with every "%XX" replaced by the byte
\* XX, every '+' by a space and every other character copied; what it
\* returns is never longer than the target, and the path is built and
\* filtered from the decoded target, so that no ".." is left in it, whether
\* it was written ".." or "%2e%2e".
C24_UrlDecode ==
    (probe.fn = "url_decode" /\ probe.done)
    => /\ probe.ret = PercentDecoded(probe.arg)
       /\ Len(probe.ret) <= Len(probe.arg)
       /\ ~HasDotDot(probe.path)

\* the same for the targets in which every '%' is followed by two
\* hexadecimal digits
C24_WellFormedDecoded ==
    (/\ probe.fn = "url_decode"
     /\ probe.done
     /\ \A i \in 1..Len(probe.arg) :
           probe.arg[i] = 37
           => /\ i + 2 <= Len(probe.arg)
              /\ IsHexDigit(probe.arg[i + 1])
              /\ IsHexDigit(probe.arg[i + 2]))
    => /\ probe.ret = PercentDecoded(probe.arg)
       /\ Len(probe.ret) <= Len(probe.arg)
       /\ ~HasDotDot(probe.path)

(***************************************************************************)
(* process_template on its own                                             *)
(***************************************************************************)
\* templates: the page's shape "<t>P</t><h>P</h>L<tb>E</tb>" (P, E, L the
\* placeholders), one without placeholders, E before P, P twice in a row,
\* P after "{{", and L alone
Templates ==
    {<<60, 116, 62>> \o DIRECTORY_PATH \o <<60, 47, 116, 62, 60, 104, 62>>
       \o DIRECTORY_PATH \o <<60, 47, 104, 62>> \o PARENT_DIRECTORY_LINK
       \o <<60, 116, 98, 62>> \o DIRECTORY_ENTRIES \o <<60, 47, 116, 98, 62>>,
     <<120>>,
     DIRECTORY_ENTRIES \o <<120>> \o DIRECTORY_PATH,
     DIRECTORY_PATH \o DIRECTORY_PATH,
     <<123, 123>> \o DIRECTORY_PATH,
     PARENT_DIRECTORY_LINK}

\* URL paths: "/", "/a", "/{{", and the names of directories that are
\* spelled like a placeholder
TemplateUrlPaths ==
    {<<47>>, <<47, 97>>, <<47, 123, 123>>, <<47>> \o DIRECTORY_ENTRIES,
     <<47>> \o PARENT_DIRECTORY_LINK, <<47>> \o DIRECTORY_PATH}

\* entries: none, a row, and rows of files that are named like a placeholder
TemplateEntries ==
    {<<>>, <<60, 114, 62, 97, 60, 47, 114, 62>>,
     <<60, 114, 62>> \o PARENT_DIRECTORY_LINK \o <<60, 47, 114, 62>>,
     <<60, 114, 62>> \o DIRECTORY_PATH \o <<60, 47, 114, 62>>,
     <<60, 114, 62>> \o DIRECTORY_ENTRIES \o <<60, 47, 114, 62>>}

TemplateInit ==
    /\ ProbeInit
    /\ \E t \in Templates, u \in TemplateUrlPaths, e \in TemplateEntries,
          h \in {0, 1} :
          probe = [fn |-> "process_template", template_content |-> t,
                   url_path |-> u, entries |-> e, has_parent |-> h,
                   ret |-> <<>>, done |-> FALSE]

\* char* page = process_template(template_content, url_path, entries,
\* has_parent), every allocation succeeding
ProcessTemplateCall ==
    /\ pc = "probe"
    /\ probe.fn = "process_template"
    /\ ~probe.done
    /\ probe' = [probe EXCEPT
                    !.done = TRUE,
                    !.ret = process_template(probe.template_content,
                                             probe.url_path, probe.entries,
                                             probe.has_parent)]
    /\ UNCHANGED <<server, lib>>

TemplateNext == ProcessTemplateCall

TemplateSpec == TemplateInit /\ [][TemplateNext]_vars

\* the template with its placeholders substituted in one pass over its
\* text: at each place a placeholder starts, its value
RECURSIVE OnePass(_, _, _, _)
OnePass(t, p, e, l) ==
    IF t = <<>> THEN <<>>
    ELSE IF IsPrefix(DIRECTORY_PATH, t)
         THEN p \o OnePass(Drop(t, Len(DIRECTORY_PATH)), p, e, l)
    ELSE IF IsPrefix(DIRECTORY_ENTRIES, t)
         THEN e \o OnePass(Drop(t, Len(DIRECTORY_ENTRIES)), p, e, l)
    ELSE IF IsPrefix(PARENT_DIRECTORY_LINK, t)
         THEN l \o OnePass(Drop(t, Len(PARENT_DIRECTORY_LINK)), p, e, l)
    ELSE <<Head(t)>> \o OnePass(Tail(t), p, e, l)

Processed == probe.fn = "process_template" /\ probe.done

\* the page the claim describes for the call
SubstitutedOnce ==
    OnePass(probe.template_content, probe.url_path, probe.entries,
            IF probe.has_parent # 0 THEN ParentLinkText ELSE <<>>)

\* C25: process_template returns the template with every occurrence of the
\* three placeholders replaced by its value, each once, as one pass over
\* the template's text gives it: the text a substitution inserted is not
\* substituted again, for every URL path and every entries text.
C25_SubstitutedOnce == Processed => probe.ret = SubstitutedOnce

\* the same for the URL paths and entries that hold no placeholder
C25_PlainValuesSubstitutedOnce ==
    (/\ Processed
     /\ \A t \in {DIRECTORY_PATH, DIRECTORY_ENTRIES, PARENT_DIRECTORY_LINK} :
           /\ StrStr(probe.url_path, t, 1) = 0
           /\ StrStr(probe.entries, t, 1) = 0)
    => probe.ret = SubstitutedOnce

(***************************************************************************)
(* The custom MIME table, every call of set_mime_type recorded             *)
(***************************************************************************)
\* the extensions registered: those of CustomExts, "a", ".a", and one as
\* long as the extension field (EXTENSION_SIZE bytes, one more than it keeps)
TableExts ==
    CustomExts \cup {<<97>>, <<46, 97>>, [i \in 1..EXTENSION_SIZE |-> 113]}

TableInit == LibSpecInit

\* set_mime_type(extension, mime_type); before is the table it found
SetMimeTypeCall ==
    /\ pc = "probe"
    /\ \E e \in TableExts, t \in CustomTypes :
          /\ lib' = [lib EXCEPT !.custom_mime_types = set_mime_type(@, e, t)]
          /\ probe' = [fn |-> "set_mime_type", extension |-> e,
                       mime_type |-> t, before |-> lib.custom_mime_types]
    /\ UNCHANGED server

TableNext == SetMimeTypeCall

TableSpec == TableInit /\ [][TableNext]_vars

\* the extension without its leading dot
Dotless(e) == IF e # <<>> /\ Head(e) = 46 THEN Tail(e) ELSE e

\* the places of the table that hold the extension e
PlacesOf(table, e) ==
    {i \in 1..Len(table) : EqNoCase(table[i].extension, Dotless(e))}

\* no two entries hold the same extension
NoDuplicateExtensions ==
    \A i, j \in 1..Len(lib.custom_mime_types) :
       EqNoCase(lib.custom_mime_types[i].extension,
                lib.custom_mime_types[j].extension) => i = j

\* a call for an extension the table held updated its entry in place
UpdatedInPlace ==
    (probe.fn = "set_mime_type" /\ PlacesOf(probe.before, probe.extension) # {})
    => /\ Len(lib.custom_mime_types) = Len(probe.before)
       /\ \A i \in 1..Len(probe.before) :
             /\ lib.custom_mime_types[i].extension = probe.before[i].extension
             /\ lib.custom_mime_types[i].mime_type =
                   IF i \in PlacesOf(probe.before, probe.extension)
                   THEN probe.mime_type ELSE probe.before[i].mime_type

\* C26: after any sequence of set_mime_type calls the table holds at most
\* MAX_CUSTOM_MIME_TYPES entries, no two of them with the same extension
\* (case and a leading dot set aside), and a call for an extension that is
\* registered gives its entry the new type in place and leaves the count
\* as it was, in a full table too.
C26_TableUpdatedInPlace ==
    /\ Len(lib.custom_mime_types) <= MAX_CUSTOM_MIME_TYPES
    /\ NoDuplicateExtensions
    /\ UpdatedInPlace

\* the same while the table is not full and for the extensions the field
\* holds whole
C26_UpdatedInPlaceWithRoom ==
    /\ Len(lib.custom_mime_types) <= MAX_CUSTOM_MIME_TYPES
    /\ (\A i \in 1..Len(lib.custom_mime_types) :
           Len(lib.custom_mime_types[i].extension) < EXTENSION_SIZE - 1)
       => NoDuplicateExtensions
    /\ (probe.fn = "set_mime_type"
        /\ Len(probe.before) < MAX_CUSTOM_MIME_TYPES)
       => UpdatedInPlace

(***************************************************************************)
(* The listing buffer                                                      *)
(***************************************************************************)
\* the content of the listing buffer and its NUL fit listing_capacity and
\* the block
ListingFits ==
    listing.capacity > 0
    => /\ listing.size + 1 <= listing.capacity
       /\ listing.size + 1 <= listing.alloc

\* C27: while a listing is generated every append to the listing buffer
\* (the page head with the URL path, each row, the closing text of the
\* page) leaves content length + 1 <= capacity, whatever the number and the
\* lengths of the entries, and the capacity never decreases.
C27_ListingBufferBound ==
    /\ []ListingFits
    /\ [][listing' = NoListing \/ listing'.capacity >= listing.capacity]_vars

\* the same up to the last row: before the closing text is appended
C27_RowsFit ==
    pc \in {"list_open", "list_read", "list_finish"} => ListingFits

\* the closing text is appended past the end of the buffer though no call
\* failed
C27_NoOverflowWithoutFailure ==
    faults \cap {"realloc_failed", "overflow"} = {} => ListingFits


(***************************************************************************)
(* platform_sendfile                                                       *)
(***************************************************************************)
\* the bytes platform_sendfile has written to the socket: the byte units of
\* the response (the header's units are header lines)
SendfileWritten == SelectSeq(sent, LAMBDA u : "b" \in DOMAIN u)

\* platform_sendfile(client_fd, fd, &offset, st_size) has returned n >= 0
SendfileReturned == pc = "file_end" /\ xfer.ret >= 0

\* what a return of n >= 0 stands for: the n bytes of the file from the
\* starting offset 0 on are on the socket, n <= count, *offset = n, and
\* n < count only when the file is shorter than count
SendfileExact ==
    /\ SendfileWritten = Bytes(Take(xfer.data, xfer.ret))
    /\ xfer.ret <= xfer.st_size
    /\ xfer.offset = xfer.ret
    /\ xfer.ret < xfer.st_size => Len(xfer.data) < xfer.st_size

\* C28: platform_sendfile(out, in, offset, count) that returns n >= 0 has
\* written to the socket exactly the n file bytes from the starting offset
\* on, in order and with none skipped, with n <= count and *offset moved on
\* by n, also when a write call accepts fewer bytes than it was given;
\* n < count only when the file ends before count bytes.
C28_SendfileExact == SendfileReturned => SendfileExact

\* the same, for the calls during which every write took all it was given
\* and no read failed
C28_ExactWhenWritesWhole ==
    (/\ SendfileReturned
     /\ faults \cap {"send_short", "read_failed"} = {})
    => SendfileExact


(***************************************************************************)
(* The per-request resources                                               *)
(***************************************************************************)
\* the places of handle_connection between url_decode and free(decoded_url)
DecodedUrlHeld ==
    pc \in {"list_begin", "list_open", "list_read", "list_finish",
            "file_begin", "sendfile", "file_end"}

\* the places of send_directory_listing between malloc and free(data.listing)
ListingHeld == pc \in {"list_open", "list_read", "list_finish"}

\* the places of send_file between open and close(fd)
FdHeld == pc \in {"sendfile", "file_end"}

\* every resource the request took was released once
ReleasedOnce ==
    /\ calls.url_decode <= 1
    /\ calls.malloc_listing <= 1
    /\ calls.open <= 1
    /\ calls.free_decoded_url = calls.url_decode
    /\ calls.free_listing = calls.malloc_listing
    /\ calls.close_fd = calls.open
    /\ ~listing.allocated
    /\ ~xfer.fd_open

\* a resource in use has been taken and not released
NoneUsedAfterRelease ==
    /\ DecodedUrlHeld
       => calls.url_decode = 1 /\ calls.free_decoded_url = 0
    /\ ListingHeld
       => calls.malloc_listing = 1 /\ calls.free_listing = 0
          /\ listing.allocated
    /\ FdHeld
       => calls.open = 1 /\ calls.close_fd = 0 /\ xfer.fd_open

\* C29: on every path on which handle_connection returns, the decoded-URL
\* buffer (after decoding), the file descriptor (after a successful open) and
\* the listing buffer (after its allocation) have each been released exactly
\* once, and none is released before its last use.
C29_ReleasedExactlyOnce ==
    /\ Returned => ReleasedOnce
    /\ NoneUsedAfterRelease

\* a listing whose opendir failed has returned: buffer and URL released
C29_Witness ==
    /\ Returned
    /\ "opendir_failed" \in faults
    /\ calls.malloc_listing = 1
    /\ calls.free_listing = 1
    /\ calls.free_decoded_url = 1

\* a file whose header could not be sent has returned: descriptor closed
C29_WitnessFile ==
    /\ Returned
    /\ "send_failed" \in faults
    /\ calls.open = 1
    /\ calls.close_fd = 1
    /\ calls.free_decoded_url = 1
    /\ sent = <<>>


(***************************************************************************)
(* The library's lifecycle                                                 *)
(***************************************************************************)
\* the running flag, the served base path and the port are as before the call
ServerStateKept ==
    /\ lib.server_running = probe.before.server_running
    /\ lib.server_base_path = probe.before.server_base_path
    /\ lib.server_port = probe.before.server_port

\* a start_server call that returned 0 has set the running flag
StartedRuns ==
    (probe.fn = "start_server" /\ probe.ret = 0) => lib.server_running = 1

\* stop_server on a server that is not running changes nothing and does not
\* call platform_cleanup
IdleStopIsNoOp ==
    (probe.fn = "stop_server" /\ probe.before.server_running = 0)
    => lib = probe.before /\ ~probe.cleanup_called /\ ~probe.closed

\* C30: a start_server call that returns non-zero (the server already runs,
\* or platform initialisation failed) leaves the running flag, the served
\* base path and the port unchanged; a call that returns 0 sets the running
\* flag; stop_server on a server that is not running changes nothing and
\* does not call platform_cleanup.
C30_Lifecycle ==
    /\ (probe.fn = "start_server" /\ probe.ret # 0) => ServerStateKept
    /\ StartedRuns
    /\ IdleStopIsNoOp

\* the same, with the failed calls narrowed to those refused because the
\* server already runs
C30_LifecycleWhenRunning ==
    /\ (/\ probe.fn = "start_server"
        /\ probe.ret # 0
        /\ probe.before.server_running # 0) => ServerStateKept
    /\ StartedRuns
    /\ IdleStopIsNoOp

====
